---- MODULE Spec2Model ----
(***************************************************************************)
(* docx-mailmerge: the duplication engine behind MailMerge.merge_templates *)
(* (MergeDocument, MergeHeaderFooterDocument, RelationsDocument) as a      *)
(* state machine over an abstract OOXML package.                           *)
(*                                                                         *)
(* A body is a sequence of body-level elements.  Every element is a record *)
(*   kind  "p" (text paragraph), "psect" (paragraph whose pPr holds a      *)
(*         sectPr), "pbr" (paragraph holding a break run), "sectPr"        *)
(*   text  literal text of the paragraph                                   *)
(*   field name of the MergeField placeholder in it ("" = none)            *)
(*   type  w:type of a sectPr / w:br type ("" = no type element)           *)
(*   refs  the r:id / r:embed references the element carries               *)
(*   id    the internal bookmark/field ID the element carries (0 = none)   *)
(* A relationship ID "rId7" is held parsed: [scheme |-> "rId", n |-> 7].   *)
(* A part file name "header1.xml" is held parsed: [type, num].             *)
(*                                                                         *)
(* Not under src/ and modelled from the specification: MergeData (replace, *)
(* fix_ids, is_first, start_merge/next_row), UniqueIdsManager, SkipRecord  *)
(* and VALID_SEPARATORS.  Every header/footer part of a package            *)
(* has a relationship in the main relationship document, as               *)
(* replace_relation_reference needs (get_relation_elem must find it).      *)
(***************************************************************************)
EXTENDS Integers, Sequences, FiniteSets, TLC

\* ---------------------------------------------------------------- bounds
MaxRows == 3
\* calls of merge/merge_templates/get_relations, of write and of close/__exit__ on
\* one document
MaxCalls == 2
MaxWrites == 2
MaxCloses == 2
\* runs of the part whose complex fields are normalised
MaxRuns == 6

\* ------------------------------------------------------------- constants
\* constants.VALID_SEPARATORS, as the interface enumerates it
VALID_SEPARATORS ==
    {"page_break", "column_break", "textWrapping_break", "continuous_section",
     "evenPage_section", "nextColumn_section", "nextPage_section", "oddPage_section"}

\* separator.split("_")
split_separator(separator) ==
    CASE separator = "page_break"         -> <<"page", "break">>
      [] separator = "column_break"       -> <<"column", "break">>
      [] separator = "textWrapping_break" -> <<"textWrapping", "break">>
      [] separator = "continuous_section" -> <<"continuous", "section">>
      [] separator = "evenPage_section"   -> <<"evenPage", "section">>
      [] separator = "nextColumn_section" -> <<"nextColumn", "section">>
      [] separator = "nextPage_section"   -> <<"nextPage", "section">>
      [] separator = "oddPage_section"    -> <<"oddPage", "section">>
      [] separator = "paragraph_break"    -> <<"paragraph", "break">>

\* the mutant of valid_separator: nothing is rejected
valid_separator_unchecked(separator) == TRUE

\* if separator not in VALID_SEPARATORS: raise ValueError
valid_separator(separator) == separator \in VALID_SEPARATORS

\* ------------------------------------------------------------- XML nodes
None == [some |-> FALSE, val |-> <<>>]
Some(x) == [some |-> TRUE, val |-> x]

rId(k) == [scheme |-> "rId", n |-> k]
PartFile(type, num) == [type |-> type, num |-> num]
Relationship(id, target) == [Id |-> id, Target |-> target]

\* id: the internal ID the element carries (a bookmark's or a field's w:id),
\* 0 when it carries none
P(text) == [kind |-> "p", text |-> text, field |-> "", type |-> "", refs |-> <<>>, id |-> 0]
MergeField(name) == [kind |-> "p", text |-> "", field |-> name, type |-> "", refs |-> <<>>, id |-> 0]
Drawing(id) == [kind |-> "p", text |-> "", field |-> "", type |-> "", refs |-> <<id>>, id |-> 0]
sectPr(type, refs) ==
    [kind |-> "sectPr", text |-> "", field |-> "", type |-> type, refs |-> refs, id |-> 0]
\* the element with a bookmark of the given ID in it
Bookmarked(elem, n) == [elem EXCEPT !.id = n]
\* a field written back in its original encoding (keep_fields other than "none")
fldSimple(name) ==
    [kind |-> "fldSimple", text |-> name, field |-> "", type |-> "", refs |-> <<>>, id |-> 0]
\* the w:updateFields element of the settings part; it has no child elements
updateFields(val) == [val |-> val, children |-> 0]

\* ------------------------------------------------------------ the inputs
Values == {"Ann", "Bo"}
\* skip: where a resolution callback raises SkipRecord for this row
Skips == {"no", "body", "hf"}
Rows == [name : Values, skip : Skips]
Separators == VALID_SEPARATORS \cup {"paragraph_break"}

RECURSIVE SeqsUpTo(_, _)
SeqsUpTo(S, n) ==
    IF n = 0 THEN {<<>>}
    ELSE LET shorter == SeqsUpTo(S, n - 1)
         IN shorter \cup {Append(s, x) : s \in {t \in shorter : Len(t) = n - 1}, x \in S}

\* A package: the main body, the main relationship document and the
\* header/footer parts (each with its content-types file name, its tree and
\* its own relationship document), the notes parts, the settings part, the
\* reader's file list and nested: the index among get_parts() of the part
\* in which a field is nested in another field (0: in none).
PlainPackage ==
    [body  |-> <<Bookmarked(P("before"), 3), MergeField("name"), sectPr("", <<>>)>>,
     rels  |-> <<Relationship(rId(1), PartFile("styles", 0))>>,
     parts |-> <<>>,
     notes |-> <<>>,
     settings |-> [mailMerge |-> TRUE, updateFields |-> <<>>],
     nested |-> 0,
     filelist |-> <<PartFile("[Content_Types]", 0), PartFile("document.rels", 0),
                    PartFile("document", 0), PartFile("styles", 0),
                    PartFile("settings", 0)>>]

HeaderPackage ==
    [body  |-> <<MergeField("name"), Bookmarked(P("after"), 1),
                 sectPr("oddPage", <<rId(2), rId(4)>>)>>,
     rels  |-> <<Relationship(rId(1), PartFile("styles", 0)),
                 Relationship(rId(2), PartFile("header", 1)),
                 Relationship(rId(4), PartFile("footer", 1))>>,
     parts |-> <<[name |-> PartFile("header", 1),
                  part |-> <<MergeField("name"), Drawing(rId(1))>>,
                  rels |-> <<Relationship(rId(1), PartFile("image", 1))>>],
                 [name |-> PartFile("footer", 1),
                  part |-> <<P("page")>>,
                  rels |-> <<>>]>>,
     notes |-> <<>>,
     settings |-> [mailMerge |-> FALSE, updateFields |-> <<updateFields("false")>>],
     nested |-> 0,
     filelist |-> <<PartFile("[Content_Types]", 0), PartFile("document.rels", 0),
                    PartFile("document", 0), PartFile("styles", 0),
                    PartFile("settings", 0), PartFile("header", 1),
                    PartFile("header.rels", 1), PartFile("image", 1),
                    PartFile("footer", 1)>>]

SectionsPackage ==
    [body  |-> <<Bookmarked(MergeField("name"), 1),
                 [sectPr("", <<rId(3)>>) EXCEPT !.kind = "psect"],
                 Bookmarked(P("after"), 2),
                 sectPr("", <<rId(3), rId(2)>>)>>,
     rels  |-> <<Relationship(rId(2), PartFile("header", 1)),
                 Relationship(rId(3), PartFile("header", 2)),
                 Relationship(rId(7), PartFile("footer", 2))>>,
     parts |-> <<[name |-> PartFile("header", 2),
                  part |-> <<MergeField("name")>>,
                  rels |-> <<>>],
                 [name |-> PartFile("header", 1),
                  part |-> <<P("title"), MergeField("name")>>,
                  rels |-> <<Relationship(rId(5), PartFile("image", 1))>>],
                 [name |-> PartFile("footer", 2),
                  part |-> <<MergeField("name")>>,
                  rels |-> <<>>]>>,
     notes |-> <<>>,
     settings |-> [mailMerge |-> TRUE, updateFields |-> <<>>],
     nested |-> 0,
     filelist |-> <<PartFile("[Content_Types]", 0), PartFile("document.rels", 0),
                    PartFile("document", 0), PartFile("settings", 0),
                    PartFile("header", 2), PartFile("header", 1),
                    PartFile("header.rels", 1), PartFile("image", 1),
                    PartFile("footer", 2)>>]

\* a package with two fields, a header holding one of them and a footnotes part
NotesPackage ==
    [body  |-> <<MergeField("name"), MergeField("city"), sectPr("", <<rId(2)>>)>>,
     rels  |-> <<Relationship(rId(1), PartFile("footnotes", 0)),
                 Relationship(rId(2), PartFile("header", 1))>>,
     parts |-> <<[name |-> PartFile("header", 1),
                  part |-> <<P("to"), MergeField("city")>>,
                  rels |-> <<>>]>>,
     notes |-> <<[name |-> PartFile("footnotes", 0),
                  part |-> <<MergeField("name")>>]>>,
     settings |-> [mailMerge |-> TRUE, updateFields |-> <<>>],
     nested |-> 1,
     filelist |-> <<PartFile("[Content_Types]", 0), PartFile("document.rels", 0),
                    PartFile("document", 0), PartFile("settings", 0),
                    PartFile("header", 1), PartFile("footnotes", 0)>>]

Packages == {PlainPackage, HeaderPackage, SectionsPackage}

IdTypes == {"rId", "header", "footer", "bookmark"}

VARIABLES
    zip,                \* the package as opened (MailMerge.zip), never written
    separator, rows,    \* the arguments of merge_templates
    pc,                 \* position inside merge_templates
    current_index,      \* MergeData._current_index (1-based here)
    id_type_map,        \* UniqueIdsManager: id type -> highest number issued or seen
    body,               \* MergeDocument._body: the live w:body of the main part
    last_section,       \* MergeDocument._last_section
    body_copy,          \* MergeDocument._body_copy
    sep_template,       \* MergeDocument._separator
    current_separator,  \* MergeDocument._current_separator
    current_body,       \* MergeDocument._current_body
    self_finish_rels,   \* MergeDocument._finish_rels
    finish_rels,        \* the local finish_rels of merge_templates
    main_rels,          \* the main part's relationship document
    rel_docs,           \* the MergeHeaderFooterDocument objects
    new_parts,          \* MailMerge.new_parts
    \* the document around the engine
    reader,             \* the ZipFile: [open, closes (calls of ZipFile.close)]
    zip_is_closed,      \* MailMerge.zip_is_closed
    close_log,          \* per call of close()/__exit__: did it raise
    keep_fields,        \* MailMerge.keep_fields
    auto_update_fields_on_open,
    has_nested_fields,  \* MergeData.has_nested_fields
    has_unmerged_fields, \* MailMerge._has_unmerged_fields
    parts,              \* the header/footer parts of MailMerge.parts
    notes,              \* the notes parts of MailMerge.parts
    settings,           \* the settings part
    content_types,      \* the children of the [Content_Types].xml root
    rels_parts,         \* the relationship documents get_relations put in MailMerge.parts
    filling,            \* __init__: index of the part being normalised
    empty_value,        \* the argument of the last write
    output,             \* the package the last write produced
    calls, writes,      \* merge/merge_templates/get_relations calls and write calls so far
    \* field discovery in one part (__fill_complex_fields)
    part,               \* the part as parsed
    root,               \* the part's tree while its fields are normalised
    elements_of_type_begin, \* the work-list of begin markers
    error,              \* the instruction text the ValueError carries
    nested_keys,        \* MergeData: the fields marked as nested
    \* resolution of list and payload values (merge, merge_rows)
    merge_args,         \* the arguments of the call
    payload,            \* the RichTextPayload object
    fresh,              \* the identities handed out to elements so far
    used                \* what each clone_elements call returned

engine_vars == <<zip, separator, rows, pc, current_index, id_type_map, body, last_section,
                 body_copy, sep_template, current_separator, current_body,
                 self_finish_rels, finish_rels, main_rels, rel_docs, new_parts>>

doc_vars == <<reader, zip_is_closed, close_log, keep_fields, auto_update_fields_on_open,
              has_nested_fields, has_unmerged_fields, parts, notes, settings,
              content_types, rels_parts, filling, empty_value, output, calls, writes>>

\* the document but for the entries get_relations adds to MailMerge.parts
doc_vars_but_rels_parts ==
    <<reader, zip_is_closed, close_log, keep_fields, auto_update_fields_on_open,
      has_nested_fields, has_unmerged_fields, parts, notes, settings, content_types,
      filling, empty_value, output, calls, writes>>

field_vars == <<part, root, elements_of_type_begin, error, nested_keys>>

merge_vars == <<merge_args, payload, fresh, used>>

\* what the operations of the engine and of the document leave alone
idle_vars == <<field_vars, merge_vars>>

vars == <<engine_vars, doc_vars, idle_vars>>

\* no part is being normalised
FieldsIdle ==
    /\ part = <<>> /\ root = <<>> /\ elements_of_type_begin = <<>> /\ error = <<>>
    /\ nested_keys = {}

\* no list or payload is being merged
MergeIdle == merge_args = <<>> /\ payload = <<>> /\ fresh = 0 /\ used = <<>>

\* the frames of the document's own operations
engine_vars_but_pc ==
    <<zip, separator, rows, current_index, id_type_map, body, last_section, body_copy,
      sep_template, current_separator, current_body, self_finish_rels, finish_rels,
      main_rels, rel_docs, new_parts>>
config_vars == <<zip, keep_fields, auto_update_fields_on_open>>
call_vars ==
    <<current_index, id_type_map, last_section, body_copy, sep_template,
      current_separator, current_body, self_finish_rels, finish_rels, main_rels, rel_docs>>

\* [Content_Types].xml: one descriptor per part of the package.  new: the
\* index in MailMerge.new_parts of the entry whose descriptor element this is
\* (0: a descriptor of the package as opened).
Override(name, new) == [PartName |-> name, new |-> new]
content_types_of(z) == [i \in DOMAIN z.filelist |-> Override(z.filelist[i], 0)]

\* the document as MailMerge.__init__ leaves it on success
Loaded(z) ==
    /\ reader = [open |-> TRUE, closes |-> 0]
    /\ zip_is_closed = FALSE
    /\ close_log = <<>>
    /\ has_unmerged_fields = FALSE
    /\ parts = z.parts
    /\ notes = z.notes
    /\ settings = z.settings
    /\ content_types = content_types_of(z)
    /\ rels_parts = {}
    /\ filling = 0
    /\ empty_value = None
    /\ output = None
    /\ calls = 0
    /\ writes = 0

Init ==
    /\ zip \in Packages
    /\ separator \in Separators
    /\ rows \in (SeqsUpTo(Rows, MaxRows) \ {<<>>})
    /\ pc = "rel_docs"
    /\ current_index = 0
    /\ id_type_map = [t \in IdTypes |-> 0]
    /\ body = zip.body
    /\ last_section = None
    /\ body_copy = <<>>
    /\ sep_template = None
    /\ current_separator = None
    /\ current_body = None
    /\ self_finish_rels = <<>>
    /\ finish_rels = <<>>
    /\ main_rels = zip.rels
    /\ rel_docs = <<>>
    /\ new_parts = <<>>
    /\ Loaded(zip)
    /\ keep_fields = "none"
    /\ auto_update_fields_on_open = "no"
    /\ has_nested_fields = FALSE
    /\ FieldsIdle
    /\ MergeIdle

\* ------------------------------------------------- UniqueIdsManager (4.1)
\* register_id(id_type, seed): seed the counter of id_type to at least seed,
\* then issue the next unused number.  seed = 0 stands for "no seed".
register_id(map, id_type, seed) ==
    LET base == IF seed > map[id_type] THEN seed ELSE map[id_type]
    IN [map |-> [map EXCEPT ![id_type] = base + 1], id |-> base + 1]

\* register_id_str("rId7"): a fresh ID of the same scheme, past every number
\* issued or seen for that scheme.
register_id_str(map, id_str) ==
    LET r == register_id(map, id_str.scheme, id_str.n)
    IN [map |-> r.map, id |-> [scheme |-> id_str.scheme, n |-> r.id]]

\* ------------------------------------------------------ MergeData (4.3)
\* MergeData.fix_ids(tree), from element k on: every internal ID of the clone
\* is renumbered through the registry, in document order, so that it collides
\* with no ID of an earlier copy.
RECURSIVE fix_ids(_, _, _)
fix_ids(tree, map, k) ==
    IF k > Len(tree) THEN [tree |-> tree, map |-> map]
    ELSE IF tree[k].id = 0 THEN fix_ids(tree, map, k + 1)
    ELSE LET r == register_id(map, "bookmark", tree[k].id)
         IN fix_ids([tree EXCEPT ![k].id = r.id], r.map, k + 1)

\* MergeData.replace(tree, row): every placeholder the row has a value for
\* becomes that value; a placeholder without a value stays.
replace(tree, row) ==
    [i \in DOMAIN tree |->
        IF tree[i].field # "" /\ tree[i].field \in DOMAIN row
        THEN [tree[i] EXCEPT !.text = row[tree[i].field], !.field = ""]
        ELSE tree[i]]

\* the resolution callback raises SkipRecord while `where` is merged
raises_skip(row, where) == row.skip = where

\* MergeData.is_first()
is_first(index) == index = 1

\* ----------------------------------------------------- RelationsDocument
\* the mutant of replace_relation: the old element itself is renamed and
\* moved to the end (the deepcopy forgotten)
replace_relation_in_place(rel_part, map, old_relation_elem, new_target) ==
    LET r == register_id_str(map, old_relation_elem.Id)
        new_relation == [old_relation_elem EXCEPT !.Id = r.id, !.Target = new_target]
        others == SelectSeq(rel_part, LAMBDA x : x # old_relation_elem)
    IN [rel_part |-> Append(others, new_relation), map |-> r.map, id |-> r.id]

replace_relation(rel_part, map, old_relation_elem, new_target) ==
    LET r == register_id_str(map, old_relation_elem.Id)
        new_relation == [old_relation_elem EXCEPT !.Id = r.id, !.Target = new_target]
    IN [rel_part |-> Append(rel_part, new_relation), map |-> r.map, id |-> r.id]

get_relation_elem(rel_part, target) ==
    LET hits == {i \in DOMAIN rel_part : rel_part[i].Target = target}
    IN IF hits = {} THEN None
       ELSE Some(rel_part[CHOOSE i \in hits : \A j \in hits : i <= j])

\* get_relations, line 333: the entry holding the relationship document of a
\* part ("word/_rels/<file name of the part>.rels")
rel_fn(name) == PartFile(name.type \o ".rels", name.num)

\* get_relations, line 334: rel_fn in self.zip.namelist().  The list of names
\* is held by the reader, open or closed.
in_namelist(z, name) == \E i \in DOMAIN z.filelist : z.filelist[i] = name

\* the first header/footer part whose relationship document get_relations
\* has to read (line 336), which a closed reader refuses with ValueError;
\* Len + 1: there is none
first_unreadable(z, part_infos, closed) ==
    LET read == {i \in DOMAIN part_infos : in_namelist(z, rel_fn(part_infos[i].name))}
    IN IF closed /\ read # {} THEN CHOOSE i \in read : \A j \in read : i <= j
       ELSE Len(part_infos) + 1

\* get_relations, line 337: the relationship documents read for the first n
\* header/footer parts are entries of MailMerge.parts
rels_read(z, part_infos, n) ==
    {rel_fn(part_infos[i].name) :
        i \in {j \in DOMAIN part_infos : j <= n /\ in_namelist(z, rel_fn(part_infos[j].name))}}

\* the mutant of get_relations: the IDs are not shown to the registry
get_relations_unscanned(map, rel_part) == map

\* MailMerge.get_relations: every ID of the relationship document is shown to
\* the registry.
RECURSIVE get_relations(_, _)
get_relations(map, rel_part) ==
    IF rel_part = <<>> THEN map
    ELSE get_relations(register_id_str(map, Head(rel_part).Id).map, Tail(rel_part))

\* --------------------------------------------- MergeHeaderFooterDocument
MergeHeaderFooterDocument(part_info) ==
    [target      |-> part_info.name,
     id_type     |-> part_info.name.type,
     part_id     |-> part_info.name.num,
     part        |-> part_info.part,
     new_parts   |-> <<>>,
     current_part |-> None,
     has_fields  |-> \E i \in DOMAIN part_info.part : part_info.part[i].field # ""]

hf_prepare(doc) ==
    IF doc.has_fields THEN [doc EXCEPT !.current_part = Some(doc.part)] ELSE doc

\* the mutant of hf_merge: the row is merged into the part itself
hf_merge_original(doc, row) ==
    IF doc.has_fields
    THEN [doc EXCEPT !.part = replace(doc.part, row),
                     !.current_part = Some(replace(doc.part, row))]
    ELSE doc

hf_merge(doc, row) ==
    IF doc.has_fields
    THEN [doc EXCEPT !.current_part = Some(replace(doc.current_part.val, row))]
    ELSE doc

\* target.replace(part_id, str(new_id))
rename_part(name, new_id) == [name EXCEPT !.num = new_id]

hf_finish(doc, map, abort) ==
    LET cur == IF abort THEN None ELSE doc.current_part
    IN IF cur.some
       THEN LET r == register_id(map, doc.id_type, 0)
                new_target == rename_part(doc.target, r.id)
                entry == [filename |-> new_target, PartName |-> new_target, part |-> cur.val]
            IN [doc  |-> [doc EXCEPT !.new_parts = Append(@, entry), !.current_part = None],
                map  |-> r.map,
                rels |-> <<<<doc.target, new_target>>>>]
       ELSE [doc |-> [doc EXCEPT !.current_part = cur], map |-> map, rels |-> <<>>]

\* the mutant of scan_header_footer: the numbers of the existing parts are not
\* shown to the registry
RECURSIVE scan_header_footer_unseeded(_, _, _)
scan_header_footer_unseeded(map, part_infos, docs) ==
    IF part_infos = <<>> THEN [map |-> map, docs |-> docs]
    ELSE scan_header_footer_unseeded(get_relations(map, Head(part_infos).rels), Tail(part_infos),
                                     Append(docs, MergeHeaderFooterDocument(Head(part_infos))))

\* merge_templates, lines 568-575: one MergeHeaderFooterDocument per
\* header/footer part; its relationship IDs and its part number are shown to
\* the registry.  An invalid separator raises in the first constructor.
RECURSIVE scan_header_footer(_, _, _)
scan_header_footer(map, part_infos, docs) ==
    IF part_infos = <<>> THEN [map |-> map, docs |-> docs]
    ELSE LET part_info == Head(part_infos)
             m1 == get_relations(map, part_info.rels)
             doc == MergeHeaderFooterDocument(part_info)
             m2 == register_id(m1, doc.id_type, doc.part_id).map
         IN scan_header_footer(m2, Tail(part_infos), Append(docs, doc))

\* merge_templates, lines 592-596: prepare, merge and finish every
\* header/footer document for one row.  raised: SkipRecord left rel_doc.merge.
RECURSIVE header_footer_row(_, _, _, _, _)
header_footer_row(docs, map, row, i, rels) ==
    IF i > Len(docs) THEN [docs |-> docs, map |-> map, rels |-> rels, raised |-> FALSE]
    ELSE LET prepared == hf_prepare(docs[i])
         IN IF prepared.has_fields /\ raises_skip(row, "hf")
            THEN [docs |-> [docs EXCEPT ![i] = prepared], map |-> map, rels |-> rels,
                  raised |-> TRUE]
            ELSE LET f == hf_finish(hf_merge(prepared, row), map, FALSE)
                 IN header_footer_row([docs EXCEPT ![i] = f.doc], f.map, row, i + 1,
                                      rels \o f.rels)

\* --------------------------------------------------------- MergeDocument
first_index(tree, kind) ==
    LET hits == {i \in DOMAIN tree : tree[i].kind = kind}
    IN IF hits = {} THEN 0 ELSE CHOOSE i \in hits : \A j \in hits : i <= j

\* the mutant of remove_at: the element stays
remove_at_none(tree, k) == tree

remove_at(tree, k) == [i \in 1..(Len(tree) - 1) |-> IF i < k THEN tree[i] ELSE tree[i + 1]]

\* the mutant of set_section_type: every section of the document gets the type
set_section_type_every(tree, sep_type) ==
    [i \in DOMAIN tree |->
        IF tree[i].kind \in {"psect", "sectPr"} THEN [tree[i] EXCEPT !.type = sep_type]
        ELSE tree[i]]

\* the mutant of set_section_type: the type goes to the last section
set_section_type_last(tree, sep_type) ==
    [tree EXCEPT ![first_index(tree, "sectPr")].type = sep_type]

\* lines 169-185: the first section of the document gets the break type
set_section_type(tree, sep_type) ==
    LET inner == first_index(tree, "psect")
        first_section == IF inner # 0 THEN inner ELSE first_index(tree, "sectPr")
    IN [tree EXCEPT ![first_section].type = sep_type]

\* the mutant of append_separator: the separator is never appended
append_separator_missing(first, tree, sep) == tree

\* lines 213-220, the body part: the separator goes in before every copy but
\* the first
append_separator(first, tree, sep) == IF ~first THEN Append(tree, sep) ELSE tree

\* MergeDocument._prepare_data for a valid separator
prepare_data(root_body, sep) ==
    LET sep_type == split_separator(sep)[1]
        sep_class == split_separator(sep)[2]
        typed == IF sep_class = "section" THEN set_section_type(root_body, sep_type)
                 ELSE root_body
        k == first_index(typed, "sectPr")
        last == typed[k]
    IN [last_section |-> last,
        body_copy    |-> remove_at(typed, k),
        body         |-> <<>>,
        separator    |-> IF sep_class = "section"
                         THEN [last EXCEPT !.kind = "psect"]
                         ELSE [kind |-> "pbr", text |-> "", field |-> "",
                               type |-> sep_type, refs |-> <<>>, id |-> 0]]

\* the mutant of rewrite_refs: no reference is rewritten
rewrite_refs_none(sep, old_id, new_id) == sep

\* lines 238-239: every reference to the old ID in sep gets the new ID
rewrite_refs(sep, old_id, new_id) ==
    [sep EXCEPT !.refs = [i \in DOMAIN @ |-> IF @[i] = old_id THEN new_id ELSE @[i]]]

replace_relation_reference(rel_part, map, sep, old_target, new_target) ==
    LET old_relation == get_relation_elem(rel_part, old_target).val
        r == replace_relation(rel_part, map, old_relation, new_target)
    IN [rel_part |-> r.rel_part, map |-> r.map,
        sep |-> rewrite_refs(sep, old_relation.Id, r.id)]

\* for old_target, new_target in self._finish_rels: replace_relation_reference
RECURSIVE flush_rels(_, _, _, _)
flush_rels(rel_part, map, sep, pending) ==
    IF pending = <<>> THEN [rel_part |-> rel_part, map |-> map, sep |-> sep]
    ELSE LET r == replace_relation_reference(rel_part, map, sep,
                                             Head(pending)[1], Head(pending)[2])
         IN flush_rels(r.rel_part, r.map, r.sep, Tail(pending))

RECURSIVE concat_new_parts(_)
concat_new_parts(docs) ==
    IF docs = <<>> THEN <<>> ELSE Head(docs).new_parts \o concat_new_parts(Tail(docs))

\* --------------------------------------------------------------- actions
\* merge_templates, lines 564-575.  On a closed reader the loop ends with the
\* ValueError of zip.open at the first part that has a relationship document;
\* the parts before it are registered.
merge_templates_rel_docs ==
    /\ pc = "rel_docs"
    /\ LET stop == first_unreadable(zip, parts, zip_is_closed)
       IN IF parts # <<>> /\ ~valid_separator(separator) /\ stop > 1
          THEN /\ id_type_map' = get_relations(id_type_map, parts[1].rels)
               /\ rels_parts' = rels_parts \cup rels_read(zip, parts, 1)
               /\ pc' = "rejected"
               /\ UNCHANGED rel_docs
          ELSE LET s == scan_header_footer(id_type_map, SubSeq(parts, 1, stop - 1), <<>>)
               IN /\ id_type_map' = s.map
                  /\ rel_docs' = s.docs
                  /\ rels_parts' = rels_parts \cup rels_read(zip, parts, stop - 1)
                  /\ pc' = IF stop <= Len(parts) THEN "zip_closed" ELSE "main"
    /\ UNCHANGED <<doc_vars_but_rels_parts, idle_vars>>
    /\ UNCHANGED <<zip, separator, rows, current_index, body, last_section, body_copy,
                   sep_template, current_separator, current_body, self_finish_rels,
                   finish_rels, main_rels, new_parts>>

\* merge_templates, lines 581-588: the main relationship document is parsed
\* from the package, MergeDocument is built and the merge is started.  On a
\* closed reader zip.open (line 336) raises ValueError.
merge_templates_main ==
    /\ pc = "main"
    /\ IF zip_is_closed /\ first_unreadable(zip, <<[name |-> PartFile("document", 0)]>>, TRUE) = 1
       THEN /\ pc' = "zip_closed"
            /\ UNCHANGED <<main_rels, id_type_map, rels_parts, body, last_section,
                           body_copy, sep_template, current_index>>
       ELSE /\ main_rels' = zip.rels
            /\ id_type_map' = get_relations(id_type_map, zip.rels)
            /\ rels_parts' = rels_parts
                                \cup rels_read(zip, <<[name |-> PartFile("document", 0)]>>, 1)
            /\ IF ~valid_separator(separator)
               THEN /\ pc' = "rejected"
                    /\ UNCHANGED <<body, last_section, body_copy, sep_template,
                                   current_index>>
               ELSE LET d == prepare_data(body, separator)
                    IN /\ body' = d.body
                       /\ last_section' = Some(d.last_section)
                       /\ body_copy' = d.body_copy
                       /\ sep_template' = Some(d.separator)
                       /\ current_index' = 1
                       /\ pc' = "prepare"
    /\ UNCHANGED <<doc_vars_but_rels_parts, idle_vars>>
    /\ UNCHANGED <<zip, separator, rows, current_separator, current_body,
                   self_finish_rels, finish_rels, rel_docs, new_parts>>

\* MergeDocument.prepare, lines 209-223: the pending references are flushed
\* into the separator and the separator is appended (not for the first
\* copy), the separator and the snapshot are cloned, and fix_ids renumbers
\* the internal IDs of the new working copy.
MergeDocument_prepare ==
    /\ pc = "prepare"
    /\ IF current_body.some
       THEN /\ pc' = "assertion_error"
            /\ UNCHANGED <<body, main_rels, id_type_map, current_separator, current_body>>
       ELSE LET f == IF ~is_first(current_index)
                     THEN flush_rels(main_rels, id_type_map, current_separator.val,
                                     self_finish_rels)
                     ELSE [rel_part |-> main_rels, map |-> id_type_map,
                           sep |-> current_separator.val]
                fixed == fix_ids(body_copy, f.map, 1)
            IN /\ main_rels' = f.rel_part
               /\ body' = append_separator(is_first(current_index), body, f.sep)
               /\ current_separator' = sep_template
               /\ current_body' = Some(fixed.tree)
               /\ id_type_map' = fixed.map
               /\ pc' = "header_footer"
    /\ UNCHANGED <<doc_vars, idle_vars>>
    /\ UNCHANGED <<zip, separator, rows, current_index, last_section, body_copy,
                   sep_template, self_finish_rels, finish_rels, rel_docs, new_parts>>

\* merge_templates, lines 592-596
merge_templates_header_footer ==
    /\ pc = "header_footer"
    /\ LET r == header_footer_row(rel_docs, id_type_map, rows[current_index], 1, <<>>)
       IN /\ rel_docs' = r.docs
          /\ id_type_map' = r.map
          /\ finish_rels' = r.rels
          /\ pc' = IF r.raised THEN "escaped" ELSE "merge"
    /\ UNCHANGED <<doc_vars, idle_vars>>
    /\ UNCHANGED <<zip, separator, rows, current_index, body, last_section, body_copy,
                   sep_template, current_separator, current_body, self_finish_rels,
                   main_rels, new_parts>>

\* the mutant of MergeDocument_merge: the working copy is the snapshot itself
\* (prepare without its deepcopy), so the row is merged into the snapshot
MergeDocument_merge_snapshot ==
    /\ pc = "merge"
    /\ IF raises_skip(rows[current_index], "body")
       THEN /\ pc' = "abort"
            /\ UNCHANGED <<current_body, body_copy>>
       ELSE /\ current_body' = Some(replace(current_body.val, rows[current_index]))
            /\ body_copy' = replace(body_copy, rows[current_index])
            /\ pc' = "finish"
    /\ UNCHANGED <<doc_vars, idle_vars>>
    /\ UNCHANGED <<zip, separator, rows, current_index, id_type_map, body, last_section,
                   sep_template, current_separator, self_finish_rels,
                   finish_rels, main_rels, rel_docs, new_parts>>

\* MergeDocument.merge, line 599
MergeDocument_merge ==
    /\ pc = "merge"
    /\ IF raises_skip(rows[current_index], "body")
       THEN /\ pc' = "abort"
            /\ UNCHANGED current_body
       ELSE /\ current_body' = Some(replace(current_body.val, rows[current_index]))
            /\ pc' = "finish"
    /\ UNCHANGED <<doc_vars, idle_vars>>
    /\ UNCHANGED <<zip, separator, rows, current_index, id_type_map, body, last_section,
                   body_copy, sep_template, current_separator, self_finish_rels,
                   finish_rels, main_rels, rel_docs, new_parts>>

\* MergeDocument.finish(finish_rels, abort)
finish(abort) ==
    /\ self_finish_rels' = finish_rels
    /\ body' = IF ~abort /\ current_body.some THEN body \o current_body.val ELSE body
    /\ current_body' = None
    /\ pc' = "next_row"
    /\ UNCHANGED <<doc_vars, idle_vars>>
    /\ UNCHANGED <<zip, separator, rows, current_index, id_type_map, last_section,
                   body_copy, sep_template, current_separator, finish_rels, main_rels,
                   rel_docs, new_parts>>

\* line 600
MergeDocument_finish == pc = "finish" /\ finish(FALSE)

\* lines 601-602
MergeDocument_abort == pc = "abort" /\ finish(TRUE)

\* line 604: MergeData.next_row
next_row ==
    /\ pc = "next_row"
    /\ current_index' = current_index + 1
    /\ pc' = IF current_index + 1 > Len(rows) THEN "exit" ELSE "prepare"
    /\ UNCHANGED <<doc_vars, idle_vars>>
    /\ UNCHANGED <<zip, separator, rows, id_type_map, body, last_section, body_copy,
                   sep_template, current_separator, current_body, self_finish_rels,
                   finish_rels, main_rels, rel_docs, new_parts>>

\* MergeDocument.__exit__ without an exception
MergeDocument_exit ==
    /\ pc = "exit"
    /\ LET f == flush_rels(main_rels, id_type_map, last_section.val, self_finish_rels)
       IN /\ main_rels' = f.rel_part
          /\ id_type_map' = f.map
          /\ last_section' = Some(f.sep)
          /\ body' = Append(body, f.sep)
    /\ pc' = "extend"
    /\ UNCHANGED <<doc_vars, idle_vars>>
    /\ UNCHANGED <<zip, separator, rows, current_index, body_copy, sep_template,
                   current_separator, current_body, self_finish_rels, finish_rels,
                   rel_docs, new_parts>>

\* merge_templates, lines 606-608
merge_templates_extend ==
    /\ pc = "extend"
    /\ new_parts' = new_parts \o concat_new_parts(rel_docs)
    /\ pc' = "done"
    /\ UNCHANGED <<doc_vars, idle_vars>>
    /\ UNCHANGED <<zip, separator, rows, current_index, id_type_map, body, last_section,
                   body_copy, sep_template, current_separator, current_body,
                   self_finish_rels, finish_rels, main_rels, rel_docs>>

Next ==
    \/ merge_templates_rel_docs
    \/ merge_templates_main
    \/ MergeDocument_prepare
    \/ merge_templates_header_footer
    \/ MergeDocument_merge
    \/ MergeDocument_finish
    \/ MergeDocument_abort
    \/ next_row
    \/ MergeDocument_exit
    \/ merge_templates_extend


Spec == Init /\ [][Next]_vars

\* ===================================================== the whole document
\* MailMerge from construction to close.  The trees are held as construction
\* leaves them: every field already normalised to its placeholder.
KeepFields == {"none", "some"}
UpdatePolicies == {"no", "auto", "always"}
\* write(file, empty_value): None or a text
EmptyValues == <<None, Some("-")>>
DocPackages == {HeaderPackage, NotesPackage}
\* the arguments of merge_templates: a full row with a section separator; a
\* row without values, a row whose callback raises SkipRecord in the body and
\* a partial row with a break separator
DocCalls ==
    {[replacements |-> <<[name |-> "Ann", city |-> "Bo", skip |-> "no"]>>,
      separator    |-> "nextPage_section"],
     [replacements |-> <<[skip |-> "no"],
                         [name |-> "Bo", city |-> "Ann", skip |-> "body"],
                         [name |-> "Bo", skip |-> "no"]>>,
      separator    |-> "page_break"]}
\* the replacements of merge
DocReplacements == {[name |-> "Ann"], [city |-> "Bo"]}

NoSettings == [mailMerge |-> FALSE, updateFields |-> <<>>]

DocInit ==
    /\ zip \in DocPackages
    /\ keep_fields \in KeepFields
    /\ auto_update_fields_on_open \in UpdatePolicies
    /\ pc = "ZipFile"
    /\ reader = [open |-> FALSE, closes |-> 0]
    /\ zip_is_closed = FALSE
    /\ close_log = <<>>
    /\ has_nested_fields = FALSE
    /\ has_unmerged_fields = FALSE
    /\ parts = <<>>
    /\ notes = <<>>
    /\ settings = NoSettings
    /\ content_types = <<>>
    /\ rels_parts = {}
    /\ filling = 0
    /\ empty_value = None
    /\ output = None
    /\ calls = 0
    /\ writes = 0
    /\ separator = "page_break"
    /\ rows = <<>>
    /\ current_index = 0
    /\ id_type_map = [t \in IdTypes |-> 0]
    /\ body = <<>>
    /\ last_section = None
    /\ body_copy = <<>>
    /\ sep_template = None
    /\ current_separator = None
    /\ current_body = None
    /\ self_finish_rels = <<>>
    /\ finish_rels = <<>>
    /\ main_rels = <<>>
    /\ rel_docs = <<>>
    /\ new_parts = <<>>
    /\ FieldsIdle
    /\ MergeIdle

\* ZipFile.close(): the reader is closed whether or not closing raises
ZipFile_close(r) == [open |-> FALSE, closes |-> r.closes + 1]

\* the mutant of init_except: the handler forgets the reader
init_except_leak(r) == r

\* __init__, lines 311-313: except Exception: self.zip.close(); raise
init_except(r) == ZipFile_close(r)

\* __init__, lines 293-302: ZipFile(file) opens the reader or raises
ZipFile_open ==
    /\ pc = "ZipFile"
    /\ \E ok \in BOOLEAN :
         IF ok THEN reader' = [reader EXCEPT !.open = TRUE] /\ pc' = "fill_parts"
         ELSE pc' = "failed" /\ UNCHANGED reader
    /\ UNCHANGED engine_vars_but_pc
    /\ UNCHANGED <<zip_is_closed, close_log, keep_fields, auto_update_fields_on_open,
                   has_nested_fields, has_unmerged_fields, parts, notes, settings,
                   content_types, rels_parts, filling, empty_value, output, calls, writes>>
    /\ UNCHANGED idle_vars

\* __init__, line 305: __fill_parts parses [Content_Types].xml and every part
\* of a known category, or raises
fill_parts ==
    /\ pc = "fill_parts"
    /\ \E ok \in BOOLEAN :
         IF ok
         THEN /\ body' = zip.body
              /\ parts' = zip.parts
              /\ notes' = zip.notes
              /\ settings' = zip.settings
              /\ content_types' = content_types_of(zip)
              /\ filling' = 1
              /\ pc' = "fill_fields"
              /\ UNCHANGED reader
         ELSE /\ reader' = init_except(reader)
              /\ pc' = "failed"
              /\ UNCHANGED <<body, parts, notes, settings, content_types, filling>>
    /\ UNCHANGED <<config_vars, call_vars, separator, rows, new_parts>>
    /\ UNCHANGED <<zip_is_closed, close_log, has_nested_fields, has_unmerged_fields,
                   rels_parts, empty_value, output, calls, writes>>
    /\ UNCHANGED idle_vars

\* get_parts(): the main part, the header/footer parts and the notes parts
get_parts_count == 1 + Len(parts) + Len(notes)

\* __init__, lines 307-309: the simple and the complex fields of one part are
\* normalised, or the part is malformed
fill_fields ==
    /\ pc = "fill_fields"
    /\ \E ok \in BOOLEAN :
         IF ok
         THEN /\ has_nested_fields' = (has_nested_fields \/ zip.nested = filling)
              /\ filling' = IF filling = get_parts_count THEN 0 ELSE filling + 1
              /\ pc' = IF filling = get_parts_count THEN "idle" ELSE "fill_fields"
              /\ UNCHANGED reader
         ELSE /\ reader' = init_except(reader)
              /\ pc' = "failed"
              /\ UNCHANGED <<has_nested_fields, filling>>
    /\ UNCHANGED engine_vars_but_pc
    /\ UNCHANGED <<zip_is_closed, close_log, keep_fields, auto_update_fields_on_open,
                   has_unmerged_fields, parts, notes, settings, content_types,
                   rels_parts, empty_value, output, calls, writes>>
    /\ UNCHANGED idle_vars

\* the mutant of close: the guard on zip_is_closed is gone
close_unguarded(r, closed) ==
    [reader |-> ZipFile_close(r), zip_is_closed |-> TRUE, invoked |-> TRUE]

\* MailMerge.close, lines 647-652
close(r, closed) ==
    IF ~closed
    THEN [reader |-> ZipFile_close(r), zip_is_closed |-> TRUE, invoked |-> TRUE]
    ELSE [reader |-> r, zip_is_closed |-> closed, invoked |-> FALSE]

\* control is with the caller of a constructed document: after construction,
\* after a merge_templates call that returned and after one that the closed
\* reader ended with ValueError.  No method tests zip_is_closed but close.
AtRest == pc \in {"idle", "done", "zip_closed"}

\* a call of close(); raises: ZipFile.close raises when it is invoked
close_call(raises) ==
    /\ AtRest
    /\ Len(close_log) < MaxCloses
    /\ LET c == close(reader, zip_is_closed)
       IN /\ reader' = c.reader
          /\ zip_is_closed' = c.zip_is_closed
          /\ close_log' = Append(close_log, c.invoked /\ raises)
    /\ UNCHANGED engine_vars
    /\ UNCHANGED <<keep_fields, auto_update_fields_on_open, has_nested_fields,
                   has_unmerged_fields, parts, notes, settings, content_types, rels_parts, filling,
                   empty_value, output, calls, writes>>
    /\ UNCHANGED idle_vars

MailMerge_close == \E raises \in BOOLEAN : close_call(raises)

\* __exit__, lines 644-645: the end of a with block calls close()
MailMerge_exit == \E raises \in BOOLEAN : close_call(raises)

\* merge_templates is called: lines 547-563; MergeDocument and the
\* MergeHeaderFooterDocument objects of the call are new
merge_templates_call ==
    /\ AtRest /\ calls < MaxCalls
    /\ \E call \in DocCalls : rows' = call.replacements /\ separator' = call.separator
    /\ pc' = "rel_docs"
    /\ current_index' = 0
    /\ current_separator' = None
    /\ current_body' = None
    /\ self_finish_rels' = <<>>
    /\ finish_rels' = <<>>
    /\ rel_docs' = <<>>
    /\ calls' = calls + 1
    /\ UNCHANGED <<zip, id_type_map, body, last_section, body_copy, sep_template,
                   main_rels, new_parts>>
    /\ UNCHANGED <<reader, zip_is_closed, close_log, keep_fields,
                   auto_update_fields_on_open, has_nested_fields, has_unmerged_fields,
                   parts, notes, settings, content_types, rels_parts, filling, empty_value, output,
                   writes>>
    /\ UNCHANGED idle_vars

\* the trees merge and write work on
Trees == [body |-> body, parts |-> parts, notes |-> notes, new_parts |-> new_parts]

replace_parts(part_infos, row) ==
    [i \in DOMAIN part_infos |-> [part_infos[i] EXCEPT !.part = replace(@, row)]]

\* the mutant of MailMerge_merge: the new parts are left out
merge_original_parts(t, replacements) ==
    [body      |-> replace(t.body, replacements),
     parts     |-> replace_parts(t.parts, replacements),
     notes     |-> replace_parts(t.notes, replacements),
     new_parts |-> t.new_parts]

\* MailMerge._merge, lines 628-633: every original part, then every new part
MailMerge_merge(t, replacements) ==
    [body      |-> replace(t.body, replacements),
     parts     |-> replace_parts(t.parts, replacements),
     notes     |-> replace_parts(t.notes, replacements),
     new_parts |-> replace_parts(t.new_parts, replacements)]

\* merge(**replacements), lines 621-626: the trees are in memory, the reader
\* is not used
merge_call ==
    /\ AtRest /\ calls < MaxCalls
    /\ \E replacements \in DocReplacements :
         LET t == MailMerge_merge(Trees, replacements)
         IN /\ body' = t.body
            /\ parts' = t.parts
            /\ notes' = t.notes
            /\ new_parts' = t.new_parts
    /\ calls' = calls + 1
    /\ UNCHANGED <<pc, config_vars, call_vars, separator, rows>>
    /\ UNCHANGED <<reader, zip_is_closed, close_log, has_nested_fields,
                   has_unmerged_fields, settings, content_types, rels_parts, filling, empty_value,
                   output, writes>>
    /\ UNCHANGED idle_vars

\* get_relations(part_zi) called by the caller of the document, lines
\* 331-341, for the main part, a header/footer part or a notes part.  A part
\* without a relationship document: None is returned.  Otherwise the
\* document is read from the package (ValueError on a closed reader, line
\* 336), it is the entry of MailMerge.parts from then on (337) and its IDs
\* are shown to the registry (339-340).
get_relations_call ==
    /\ AtRest /\ calls < MaxCalls
    /\ \E name \in {PartFile("document", 0)}
                      \cup {parts[i].name : i \in DOMAIN parts}
                      \cup {notes[i].name : i \in DOMAIN notes} :
         LET rel_part ==
                 IF name = PartFile("document", 0) THEN zip.rels
                 ELSE IF \E i \in DOMAIN zip.parts : zip.parts[i].name = name
                 THEN zip.parts[CHOOSE i \in DOMAIN zip.parts : zip.parts[i].name = name].rels
                 ELSE <<>>
         IN IF in_namelist(zip, rel_fn(name)) /\ ~zip_is_closed
            THEN /\ rels_parts' = rels_parts \cup {rel_fn(name)}
                 /\ id_type_map' = get_relations(id_type_map, rel_part)
                 /\ main_rels' = IF name = PartFile("document", 0) THEN rel_part
                                 ELSE main_rels
            ELSE UNCHANGED <<rels_parts, id_type_map, main_rels>>
    /\ calls' = calls + 1
    /\ UNCHANGED <<zip, separator, rows, pc, current_index, body, last_section,
                   body_copy, sep_template, current_separator, current_body,
                   self_finish_rels, finish_rels, rel_docs, new_parts>>
    /\ UNCHANGED <<reader, zip_is_closed, close_log, keep_fields,
                   auto_update_fields_on_open, has_nested_fields, has_unmerged_fields,
                   parts, notes, settings, content_types, filling, empty_value, output,
                   writes>>
    /\ UNCHANGED idle_vars

fields_of(tree) == {tree[i].field : i \in DOMAIN tree} \ {""}

\* get_merge_fields, lines 531-545: the names of the placeholders of the main,
\* header/footer and notes parts
get_merge_fields(t) ==
    fields_of(t.body)
        \cup UNION {fields_of(t.parts[i].part) : i \in DOMAIN t.parts}
        \cup UNION {fields_of(t.notes[i].part) : i \in DOMAIN t.notes}

\* MergeData.replace while replace_fields_with_missing_data is set and no
\* value is given: the placeholder gives way to the field as it was encoded
restore_fields(tree) ==
    [i \in DOMAIN tree |-> IF tree[i].field # "" THEN fldSimple(tree[i].field) ELSE tree[i]]

restore_parts(part_infos) ==
    [i \in DOMAIN part_infos |-> [part_infos[i] EXCEPT !.part = restore_fields(@)]]

\* write, lines 496-505: the fields that are still there get the empty value
\* (keep_fields "none") or their original encoding back
write_fields(t, keep, ev) ==
    IF ~ev.some THEN t
    ELSE IF keep = "none"
    THEN MailMerge_merge(t, [f \in get_merge_fields(t) |-> ev.val])
    ELSE [body      |-> restore_fields(t.body),
          parts     |-> restore_parts(t.parts),
          notes     |-> restore_parts(t.notes),
          new_parts |-> restore_parts(t.new_parts)]

\* the truth value of an lxml element: it has child elements
truthy(elem) == elem.some /\ elem.val.children > 0

\* __fix_settings, lines 467-487
fix_settings(st, unmerged, policy, nested) ==
    LET cleared == IF ~unmerged THEN [st EXCEPT !.mailMerge = FALSE] ELSE st
        add_update_fields_setting == (policy = "auto" /\ nested) \/ policy = "always"
        update_fields_elem ==
            IF cleared.updateFields = <<>> THEN None ELSE Some(Head(cleared.updateFields))
    IN IF add_update_fields_setting
       THEN IF ~truthy(update_fields_elem)
            THEN [cleared EXCEPT !.updateFields = Append(@, updateFields("true"))]
            ELSE [cleared EXCEPT !.updateFields[1].val = "true"]
       ELSE cleared

\* the mutant of content_types_append: a copy of the descriptor is appended
content_types_append_copy(ct, elem) == Append(ct, elem)

\* content_types.append(part_content_type), line 513: lxml moves an element
\* that already is a child to the end
content_types_append(ct, elem) ==
    Append(SelectSeq(ct, LAMBDA x : x.new # elem.new), elem)

\* write, lines 512-513
RECURSIVE append_content_types(_, _, _)
append_content_types(ct, nps, k) ==
    IF k > Len(nps) THEN ct
    ELSE append_content_types(content_types_append(ct, Override(nps[k].PartName, k)),
                              nps, k + 1)

\* the tree write serialises for an entry of the package: self.parts[zi] for
\* the main, header/footer and notes parts (<<>> stands for any other entry)
tree_of(t, z, name) ==
    IF name = PartFile("document", 0) THEN t.body
    ELSE IF \E i \in DOMAIN t.parts : t.parts[i].name = name
    THEN t.parts[CHOOSE i \in DOMAIN t.parts : t.parts[i].name = name].part
    ELSE IF \E i \in DOMAIN t.notes : t.notes[i].name = name
    THEN t.notes[CHOOSE i \in DOMAIN t.notes : t.notes[i].name = name].part
    ELSE <<>>

\* zi in self.parts (line 517): the content types, the parts of a known
\* category (__fill_parts) and the relationship documents get_relations read
in_parts(name, rel_parts) ==
    \/ name.type \in {"[Content_Types]", "document", "settings", "header", "footer",
                      "footnotes", "endnotes"}
    \/ name \in rel_parts

\* write, lines 516-525: the entries serialised from their trees before the
\* first entry that has to be copied with zip.read; every entry when there is
\* none to copy or the reader is open
entries_written(z, rel_parts, closed) ==
    LET copied == {i \in DOMAIN z.filelist : ~in_parts(z.filelist[i], rel_parts)}
    IN IF closed /\ copied # {} THEN (CHOOSE i \in copied : \A j \in copied : i <= j) - 1
       ELSE Len(z.filelist)

\* write, lines 515-529: every entry of the reader's file list, then every
\* new part
write_entries(t, z) ==
    [i \in DOMAIN z.filelist |->
        [filename |-> z.filelist[i], part |-> tree_of(t, z, z.filelist[i])]]
    \o [i \in DOMAIN t.new_parts |->
        [filename |-> t.new_parts[i].filename, part |-> t.new_parts[i].part]]

\* write(file, empty_value), lines 494-529.  On a closed reader zip.read
\* (line 525) raises ValueError at the first entry that is not in
\* MailMerge.parts: the trees, the settings and the content types are changed
\* by then, and the archive is left with the entries before that one
\* (complete: the call returned).
write ==
    /\ AtRest /\ writes < MaxWrites
    /\ \E k \in DOMAIN EmptyValues :
         LET ev == EmptyValues[k]
             unmerged == get_merge_fields(Trees) # {}
             t == write_fields(Trees, keep_fields, ev)
             st == fix_settings(settings, unmerged, auto_update_fields_on_open,
                                has_nested_fields)
             ct == append_content_types(content_types, new_parts, 1)
         IN /\ has_unmerged_fields' = unmerged
            /\ empty_value' = ev
            /\ body' = t.body
            /\ parts' = t.parts
            /\ notes' = t.notes
            /\ new_parts' = t.new_parts
            /\ settings' = st
            /\ content_types' = ct
            /\ LET n == entries_written(zip, rels_parts, zip_is_closed)
               IN output' = Some([entries |-> IF n < Len(zip.filelist)
                                              THEN SubSeq(write_entries(t, zip), 1, n)
                                              ELSE write_entries(t, zip),
                                  settings |-> st, content_types |-> ct,
                                  complete |-> n = Len(zip.filelist)])
    /\ writes' = writes + 1
    /\ UNCHANGED <<pc, config_vars, call_vars, separator, rows>>
    /\ UNCHANGED <<reader, zip_is_closed, close_log, has_nested_fields, rels_parts,
                   filling, calls>>
    /\ UNCHANGED idle_vars

DocNext ==
    \/ ZipFile_open
    \/ fill_parts
    \/ fill_fields
    \/ merge_templates_call
    \/ merge_call
    \/ get_relations_call
    \/ write
    \/ MailMerge_close
    \/ MailMerge_exit
    \/ Next

SpecDoc == DocInit /\ [][DocNext]_vars

\* ======================================================== field discovery
\* __fill_complex_fields on one part.  The part is a sequence of paragraphs
\* in document order, a paragraph [tag |-> "p", parent |-> the element it is a
\* child of (0: the body, another number: a table cell), kids |-> its child
\* elements in order].  A child is
\*   id          the identity of the element
\*   tag         "r" (a run) or "MergeField" (a placeholder)
\*   fldCharType "begin", "separate", "end" of the run's w:fldChar, "" without
\*   instr       the instruction text it carries, a sequence of words
\*   nested      (placeholder) the field lay inside another field
\*   all         (placeholder) the identities of the elements it stands for
\* MergeData.make_data_field, get_instr_text and the field's insert_into_tree
\* are not under src/ and are modelled from the specification (4.2).
Run(id, fldCharType, instr) ==
    [id |-> id, tag |-> "r", fldCharType |-> fldCharType, instr |-> instr,
     nested |-> FALSE, all |-> <<>>]

\* the runs a part is made of: the three markers and two instruction texts
Symbols == {"begin", "separate", "end", "MERGEFIELD", "PAGE"}

\* the placeholder __fill_simple_fields left for a simple field
SimpleField(id) ==
    [id |-> id, tag |-> "MergeField", fldCharType |-> "", instr |-> <<"MERGEFIELD">>,
     nested |-> FALSE, all |-> <<id>>]

RunOf(sym, id) ==
    IF sym \in {"begin", "separate", "end"} THEN Run(id, sym, <<>>)
    ELSE IF sym = "SIMPLE" THEN SimpleField(id)
    ELSE Run(id, "", <<sym>>)

\* the runs of syms, the first k of them in a first paragraph and the others
\* in a second one
PartOf(syms, k) ==
    LET runs == [i \in DOMAIN syms |-> RunOf(syms[i], i)]
    IN <<[tag |-> "p", parent |-> 0, kids |-> SubSeq(runs, 1, k)]>>
       \o (IF k < Len(syms)
           THEN <<[tag |-> "p", parent |-> 0, kids |-> SubSeq(runs, k + 1, Len(syms))]>>
           ELSE <<>>)

\* every part starts with a begin marker
IsPart(x) ==
    \E n \in 0..(MaxRuns - 1) : \E s \in [1..n -> Symbols], k \in 1..(n + 1) :
        x = PartOf(<<"begin">> \o s, k)

\* the paragraph holding the element, and the element's place in it
paragraph_of(tr, id) ==
    CHOOSE b \in DOMAIN tr : \E i \in DOMAIN tr[b].kids : tr[b].kids[i].id = id
index_of(kids, id) == CHOOSE i \in DOMAIN kids : kids[i].id = id
element(tr, id) ==
    LET kids == tr[paragraph_of(tr, id)].kids IN kids[index_of(kids, id)]

\* current_paragraph.find("w:r"): the first child that is a run
find_r(paragraph) ==
    LET hits == {i \in DOMAIN paragraph.kids : paragraph.kids[i].tag = "r"}
    IN IF paragraph.tag # "p" \/ hits = {} THEN None
       ELSE Some(paragraph.kids[CHOOSE i \in hits : \A j \in hits : i <= j])

\* the loop of __get_next_element, lines 384-388: the first run of the
\* following siblings of the paragraph, which are the later paragraphs with
\* the same parent (a table among the siblings has no run of its own)
RECURSIVE next_paragraph_run(_, _, _)
next_paragraph_run(tr, b, container) ==
    IF b > Len(tr) THEN None
    ELSE IF tr[b].parent = container /\ find_r(tr[b]).some THEN find_r(tr[b])
    ELSE next_paragraph_run(tr, b + 1, container)

\* the mutant of get_next_element: the walk does not leave the paragraph
get_next_element_in_paragraph(tr, current_element) ==
    LET b == paragraph_of(tr, current_element)
        i == index_of(tr[b].kids, current_element)
    IN IF i < Len(tr[b].kids) THEN Some(tr[b].kids[i + 1]) ELSE None

\* __get_next_element, lines 378-398
get_next_element(tr, current_element) ==
    LET b == paragraph_of(tr, current_element)
        i == index_of(tr[b].kids, current_element)
    IN IF i < Len(tr[b].kids) THEN Some(tr[b].kids[i + 1])
       ELSE next_paragraph_run(tr, b + 1, tr[b].parent)

\* MergeData.get_instr_text(instr_elements, recursive=True): the instruction
\* text of the elements, that of the placeholders among them included
RECURSIVE get_instr_text(_)
get_instr_text(instr_elements) ==
    IF instr_elements = <<>> THEN <<>>
    ELSE Head(instr_elements).instr \o get_instr_text(Tail(instr_elements))

\* MergeData.make_data_field: the placeholder of a recognised field, None for
\* any other field
make_data_field(begin, nested, all_elements, instr_elements, show_elements) ==
    LET instr == get_instr_text(instr_elements)
    IN IF instr # <<>> /\ Head(instr) = "MERGEFIELD"
       THEN Some([id |-> begin, tag |-> "MergeField", fldCharType |-> "",
                  instr |-> instr, nested |-> nested, all |-> all_elements])
       ELSE None

\* insert_into_tree: the placeholder takes the place of the begin marker and
\* the other elements of the field leave the tree
insert_into_tree(tr, obj) ==
    LET others == {obj.all[i] : i \in 2..Len(obj.all)}
        put(kids) == [i \in DOMAIN kids |-> IF kids[i].id = obj.all[1] THEN obj ELSE kids[i]]
    IN [b \in DOMAIN tr |->
           [tr[b] EXCEPT !.kids = put(SelectSeq(@, LAMBDA e : e.id \notin others))]]

\* _pull_next_merge_field, lines 402-412: the head of the work-list is taken
pull_start(tr, begins, nested) ==
    [tree |-> tr, begins |-> Tail(begins), begin |-> Head(begins),
     current_element |-> Head(begins), nested |-> nested, list |-> "instr",
     all_elements |-> <<Head(begins)>>, instr_elements |-> <<>>, show_elements |-> <<>>,
     marked |-> {}]

pull_raise(w, what, text) ==
    [status |-> what, text |-> text, tree |-> w.tree, begins |-> w.begins,
     obj |-> None, current_element |-> w.current_element, marked |-> w.marked]

\* next_element joins the current list (not a separate or end marker) and
\* all_elements, and becomes the current element: lines 445-450
pull_take(w, next_element, listed) ==
    [w EXCEPT !.current_element = next_element.id,
              !.all_elements = Append(@, next_element.id),
              !.instr_elements = IF listed /\ w.list = "instr"
                                 THEN Append(@, next_element) ELSE @,
              !.show_elements = IF listed /\ w.list = "show"
                                THEN Append(@, next_element) ELSE @]

\* the mutant of mark_field_as_nested: the field is not marked
mark_field_as_nested_not(w, key) == w

\* MergeData.mark_field_as_nested(merge_key), called at lines 432-434
mark_field_as_nested(w, key) == [w EXCEPT !.marked = @ \cup {key}]

\* _pull_next_merge_field, lines 400-452: the walk from a begin marker to its
\* end marker; a begin marker met on the way is the head of the work-list and
\* is pulled first.  Line 427 reads elements_of_type_begin[0] before the
\* assertion compares it: IndexError on an empty work-list, AssertionError
\* when the head is another marker.
RECURSIVE pull_walk(_)
pull_walk(w) ==
    LET nx == get_next_element(w.tree, w.current_element)
        next_element == nx.val
    IN IF ~nx.some
       THEN pull_raise(w, "ValueError", get_instr_text(w.instr_elements))
       ELSE IF next_element.fldCharType = "begin"
       THEN IF w.begins = <<>>
            THEN pull_raise(w, "IndexError", <<>>)
            ELSE IF Head(w.begins) # next_element.id
            THEN pull_raise(w, "AssertionError", <<>>)
            ELSE LET sub == pull_walk(pull_start(w.tree, w.begins, TRUE))
                 IN IF sub.status # "ok"
                    THEN [sub EXCEPT !.marked = w.marked \cup sub.marked]
                    ELSE IF sub.obj.some
                    THEN pull_walk(pull_take(
                             [w EXCEPT !.tree = insert_into_tree(sub.tree, sub.obj.val),
                                       !.begins = sub.begins,
                                       !.marked = @ \cup sub.marked \cup {sub.obj.val.id}],
                             sub.obj.val, TRUE))
                    ELSE pull_walk(pull_take(
                             [w EXCEPT !.tree = sub.tree, !.begins = sub.begins,
                                       !.marked = @ \cup sub.marked],
                             element(sub.tree, sub.current_element), TRUE))
       ELSE IF next_element.fldCharType = "separate"
       THEN pull_walk(pull_take([w EXCEPT !.list = "show"], next_element, FALSE))
       ELSE IF next_element.fldCharType = "end"
       THEN LET done == pull_take(w, next_element, FALSE)
            IN [status |-> "ok", text |-> <<>>, tree |-> w.tree, begins |-> w.begins,
                obj |-> make_data_field(w.begin, w.nested, done.all_elements,
                                        done.instr_elements, done.show_elements),
                current_element |-> next_element.id, marked |-> w.marked]
       ELSE IF next_element.tag = "MergeField"
       THEN pull_walk(pull_take(mark_field_as_nested(w, next_element.id),
                                next_element, TRUE))
       ELSE pull_walk(pull_take(w, next_element, TRUE))

pull_next_merge_field(tr, begins, nested) == pull_walk(pull_start(tr, begins, nested))

\* part.findall('.//w:r/w:fldChar[@fldCharType="begin"]/..'): the begin
\* markers in document order
RECURSIVE findall_begin(_)
findall_begin(tr) ==
    IF tr = <<>> THEN <<>>
    ELSE LET kids == SelectSeq(Head(tr).kids, LAMBDA e : e.fldCharType = "begin")
         IN [i \in DOMAIN kids |-> kids[i].id] \o findall_begin(Tail(tr))

\* the engine and the document stand still: a document loaded from the
\* plain package, on which nothing is called
Parked ==
    /\ zip = PlainPackage
    /\ separator = "page_break"
    /\ rows = <<>>
    /\ current_index = 0
    /\ id_type_map = [t \in IdTypes |-> 0]
    /\ body = zip.body
    /\ last_section = None
    /\ body_copy = <<>>
    /\ sep_template = None
    /\ current_separator = None
    /\ current_body = None
    /\ self_finish_rels = <<>>
    /\ finish_rels = <<>>
    /\ main_rels = zip.rels
    /\ rel_docs = <<>>
    /\ new_parts = <<>>
    /\ Loaded(zip)
    /\ keep_fields = "none"
    /\ auto_update_fields_on_open = "no"
    /\ has_nested_fields = FALSE

FieldsInit ==
    /\ IsPart(part)
    /\ root = part
    /\ elements_of_type_begin = <<>>
    /\ error = <<>>
    /\ nested_keys = {}
    /\ pc = "findall"
    /\ Parked
    /\ MergeIdle

\* __fill_complex_fields, lines 455-459
fill_complex_fields_findall ==
    /\ pc = "findall"
    /\ elements_of_type_begin' = findall_begin(root)
    /\ pc' = "pull"
    /\ UNCHANGED <<part, root, error, nested_keys, engine_vars_but_pc, doc_vars,
                   merge_vars>>

\* __fill_complex_fields, lines 460-465: one turn of the loop; an exception
\* of _pull_next_merge_field leaves the method
fill_complex_fields_pull ==
    /\ pc = "pull"
    /\ elements_of_type_begin # <<>>
    /\ LET r == pull_next_merge_field(root, elements_of_type_begin, FALSE)
       IN /\ elements_of_type_begin' = r.begins
          /\ nested_keys' = nested_keys \cup r.marked
          /\ has_nested_fields' = (has_nested_fields \/ r.marked # {})
          /\ IF r.status = "ok"
             THEN /\ root' = IF r.obj.some THEN insert_into_tree(r.tree, r.obj.val)
                             ELSE r.tree
                  /\ UNCHANGED <<pc, error>>
             ELSE /\ root' = r.tree
                  /\ error' = r.text
                  /\ pc' = r.status
    /\ UNCHANGED <<part, engine_vars_but_pc, merge_vars>>
    /\ UNCHANGED <<reader, zip_is_closed, close_log, keep_fields,
                   auto_update_fields_on_open, has_unmerged_fields, parts, notes,
                   settings, content_types, rels_parts, filling, empty_value, output, calls, writes>>

\* the work-list is empty: the part is normalised
fill_complex_fields_return ==
    /\ pc = "pull"
    /\ elements_of_type_begin = <<>>
    /\ pc' = "normalised"
    /\ UNCHANGED <<field_vars, engine_vars_but_pc, doc_vars, merge_vars>>

FieldsNext ==
    \/ fill_complex_fields_findall
    \/ fill_complex_fields_pull
    \/ fill_complex_fields_return

SpecFields == FieldsInit /\ [][FieldsNext]_vars

\* ---------------------------------------- parts with simple-field placeholders
\* The parts __fill_complex_fields is given after __fill_simple_fields (line
\* 309): a simple field is a placeholder already ("SIMPLE").
NestedSymbols == {"begin", "separate", "end", "MERGEFIELD", "SIMPLE"}

IsNestedPart(x) ==
    \E n \in 0..(MaxRuns - 1) : \E s \in [1..n -> NestedSymbols], k \in 1..(n + 1) :
        x = PartOf(<<"begin">> \o s, k)

NestedInit ==
    /\ IsNestedPart(part)
    /\ root = part
    /\ elements_of_type_begin = <<>>
    /\ error = <<>>
    /\ nested_keys = {}
    /\ pc = "findall"
    /\ Parked
    /\ MergeIdle

SpecNested == NestedInit /\ [][FieldsNext]_vars

\* ------------------------------------------------- parts with containers
\* Three paragraphs in document order, each a child of the body (0) or of a
\* table cell (1, 2): all in the body; the second in a table between the
\* other two; the first in a table before the other two; the first two in
\* two cells of a table before the third.
ShapeSymbols == {"begin", "end", "MERGEFIELD"}
Containers == {<<0, 0, 0>>, <<0, 1, 0>>, <<1, 0, 0>>, <<1, 2, 0>>}

ShapeOf(syms, k1, k2, c) ==
    LET runs == [i \in DOMAIN syms |-> RunOf(syms[i], i)]
    IN <<[tag |-> "p", parent |-> c[1], kids |-> SubSeq(runs, 1, k1)],
         [tag |-> "p", parent |-> c[2], kids |-> SubSeq(runs, k1 + 1, k2)],
         [tag |-> "p", parent |-> c[3], kids |-> SubSeq(runs, k2 + 1, Len(syms))]>>

IsShape(x) ==
    \E n \in 0..(MaxRuns - 1) :
        \E s \in [1..n -> ShapeSymbols], k1 \in 1..(n + 1), c \in Containers :
            \E k2 \in k1..(n + 1) : x = ShapeOf(<<"begin">> \o s, k1, k2, c)

ShapesInit ==
    /\ IsShape(part)
    /\ root = part
    /\ elements_of_type_begin = <<>>
    /\ error = <<>>
    /\ nested_keys = {}
    /\ pc = "findall"
    /\ Parked
    /\ MergeIdle

SpecShapes == ShapesInit /\ [][FieldsNext]_vars

\* ------------------------------------------- table rows (4.3, merge_rows)
\* A table is a sequence of rows, a row a sequence of cell contents, a cell
\* content a paragraph or a table.
Tbl(trs) == [kind |-> "tbl", rows |-> trs]
Tr(cells) == [kind |-> "tr", cells |-> cells]

Anchor == "name"

\* the mappings a list is made of; the last one has no value for `version`
RowMappings ==
    { [name |-> "Ann", version |-> "1", note |-> "A", desc |-> "Hey"],
      [name |-> "Bo", version |-> "2", note |-> "B", desc |-> "Wow"],
      [name |-> "Cy", note |-> "C", desc |-> "Oh"] }

\* two sibling tables, the anchor row between two other rows
SiblingTables ==
    << << P("intro"),
          Tbl(<< Tr(<<P("Name"), P("Version")>>),
                 Tr(<<MergeField("name"), MergeField("version")>>),
                 Tr(<<P("end")>>) >>),
          Tbl(<< Tr(<<MergeField("note")>>) >>) >> >>

\* the anchor row is a row of a table nested in a cell of another table
\* (tests/test_merge_nested_table_rows.py: the fields name, version, note
\* and desc, two tables before and after the merge)
NestedAnchor ==
    << << Tbl(<< Tr(<<P("outer"),
                     Tbl(<< Tr(<<P("Name")>>),
                            Tr(<<MergeField("name"), MergeField("version"),
                                 MergeField("desc")>>) >>)>>),
                 Tr(<<MergeField("note")>>) >>) >> >>

\* the anchor row has a table in one of its cells
NestedInAnchor ==
    << << Tbl(<< Tr(<<MergeField("name"), Tbl(<< Tr(<<MergeField("note")>>) >>)>>),
                 Tr(<<P("total")>>) >>),
          MergeField("version") >> >>

\* the anchor row is in the second part (a header)
HeaderTable ==
    << << P("body"), MergeField("note") >>,
       << Tbl(<< Tr(<<MergeField("name")>>), Tr(<<P("page")>>) >>) >> >>

TableDocs == {SiblingTables, NestedAnchor, NestedInAnchor, HeaderTable}

\* MergeData.replace on a tree with tables: the placeholders the row has a
\* value for are resolved at every depth
RECURSIVE replace_deep(_, _)
replace_deep(items, row) ==
    [i \in DOMAIN items |->
        IF items[i].kind = "tbl"
        THEN Tbl([r \in DOMAIN items[i].rows |->
                    Tr(replace_deep(items[i].rows[r].cells, row))])
        ELSE replace(<<items[i]>>, row)[1]]

\* the row encloses the anchor field: the field is in one of its cells, not
\* in a table nested there
is_anchor_row(tr, anchor) ==
    \E c \in DOMAIN tr.cells : tr.cells[c].kind = "p" /\ tr.cells[c].field = anchor

\* one clone of the row per mapping, each resolved against its mapping; for
\* the empty list there is no clone
clone_rows(tr, mappings) ==
    [i \in DOMAIN mappings |-> Tr(replace_deep(tr.cells, mappings[i]))]

\* MergeData.replace_table_rows(part, anchor, rows): the row enclosing the
\* anchor field is replaced by its clones, where it was
RECURSIVE expand_rows(_, _, _)
RECURSIVE replace_table_rows(_, _, _)
expand_rows(trs, anchor, mappings) ==
    IF trs = <<>> THEN <<>>
    ELSE IF is_anchor_row(Head(trs), anchor)
         THEN clone_rows(Head(trs), mappings) \o Tail(trs)
         ELSE <<Tr(replace_table_rows(Head(trs).cells, anchor, mappings))>>
                  \o expand_rows(Tail(trs), anchor, mappings)

replace_table_rows(items, anchor, mappings) ==
    [i \in DOMAIN items |->
        IF items[i].kind = "tbl"
        THEN Tbl(expand_rows(items[i].rows, anchor, mappings))
        ELSE items[i]]

\* the mutant of merge_rows: only the main part is looked at
merge_rows_main_part(trees, anchor, mappings) ==
    [p \in DOMAIN trees |->
        IF p = 1 THEN replace_table_rows(trees[p], anchor, mappings) ELSE trees[p]]

\* MailMerge.merge_rows(anchor, rows)
merge_rows(trees, anchor, mappings) ==
    [p \in DOMAIN trees |-> replace_table_rows(trees[p], anchor, mappings)]

\* MailMerge.merge(anchor=rows): replace meets a list value and repeats the
\* row of the field it is given for
merge_list(trees, anchor, mappings) ==
    [p \in DOMAIN trees |-> replace_table_rows(trees[p], anchor, mappings)]

RowsInit ==
    /\ pc = "rows"
    /\ part \in TableDocs
    /\ root = part
    /\ \E n \in 0..MaxRows : \E l \in [1..n -> RowMappings] :
          merge_args = [anchor |-> Anchor, rows |-> l]
    /\ payload = <<>> /\ fresh = 0 /\ used = <<>>
    /\ elements_of_type_begin = <<>> /\ error = <<>> /\ nested_keys = {}
    /\ Parked

merge_rows_call ==
    /\ pc = "rows"
    /\ root' = merge_rows(root, merge_args.anchor, merge_args.rows)
    /\ pc' = "merged_rows"
    /\ UNCHANGED <<part, elements_of_type_begin, error, nested_keys, merge_vars,
                   engine_vars_but_pc, doc_vars>>

merge_list_call ==
    /\ pc = "rows"
    /\ root' = merge_list(root, merge_args.anchor, merge_args.rows)
    /\ pc' = "merged"
    /\ UNCHANGED <<part, elements_of_type_begin, error, nested_keys, merge_vars,
                   engine_vars_but_pc, doc_vars>>

RowsNext ==
    \/ merge_rows_call
    \/ merge_list_call

SpecRows == RowsInit /\ [][RowsNext]_vars

\* ----------------------------------------------- RichTextPayload (4.5)
\* Elements are objects: `id` is the identity of one. A paragraph holds
\* runs and placeholders, which hold nothing.
Element(id, tag, text, name, kids) ==
    [id |-> id, tag |-> tag, text |-> text, name |-> name, kids |-> kids]
w_p(id, kids) == Element(id, "p", "", "", kids)
w_r(id, text) == Element(id, "r", text, "", <<>>)
Placeholder(id, name) == Element(id, "MergeField", "", name, <<>>)
\* what is no lxml element
NotAnElement == Element(0, "str", "text", "", <<>>)

\* the bodies of the templates: three fields in three paragraphs; a field
\* between two runs; a field used twice
PayloadDocs ==
    { << w_p(1, <<Placeholder(2, "foo")>>), w_p(3, <<Placeholder(4, "bar")>>),
         w_p(5, <<Placeholder(6, "gak")>>) >>,
      << w_p(1, <<w_r(2, "Dear "), Placeholder(3, "foo"), w_r(4, "!")>>),
         w_p(5, <<Placeholder(6, "bar")>>) >>,
      << w_p(1, <<Placeholder(2, "foo")>>), w_p(3, <<Placeholder(4, "foo")>>),
         w_p(5, <<Placeholder(6, "bar")>>) >> }

\* the elements a payload is built from
PayloadElements ==
    { << w_p(11, <<w_r(12, "First paragraph")>>), w_p(13, <<w_r(14, "Second paragraph")>>) >>,
      << w_p(11, <<w_r(12, "Only paragraph")>>) >>,
      << w_r(11, "Inline value") >>,
      << w_r(11, "Inline "), w_r(12, "value") >>,
      << w_r(11, "Inline value"), NotAnElement >> }

\* the identities taken by the template and by the caller's elements
FirstFresh == 20

\* a value of a field: the payload object or a string
Rich == [rich |-> TRUE, text |-> ""]
Str(text) == [rich |-> FALSE, text |-> text]

\* the keyword arguments of a merge call
PayloadCalls ==
    { [foo |-> Rich],
      [foo |-> Rich, bar |-> Str("two"), gak |-> Str("three")],
      [bar |-> Rich],
      [bar |-> Str("two")] }

\* RichTextPayload._validate_elements
validate_elements(elements) ==
    \A i \in DOMAIN elements : elements[i].tag # "str"

\* the mutant of RichTextPayload: block_level is not kept
RichTextPayload_block(elements, block_level) ==
    [elements |-> elements, block_level |-> TRUE]

\* RichTextPayload(elements, block_level=...)
RichTextPayload(elements, block_level) ==
    [elements |-> elements, block_level |-> block_level]

\* the elements of the subtree of el
size(el) == 1 + Len(el.kids)

\* deepcopy(element): new objects with the same content, identities from
\* base + 1 on
deepcopy(el, base) ==
    [el EXCEPT !.id = base + 1,
               !.kids = [k \in DOMAIN el.kids |-> [el.kids[k] EXCEPT !.id = base + 1 + k]]]

RECURSIVE deepcopy_each(_, _)
deepcopy_each(elements, base) ==
    IF elements = <<>> THEN <<>>
    ELSE <<deepcopy(Head(elements), base)>>
            \o deepcopy_each(Tail(elements), base + size(Head(elements)))

\* the mutant of clone_elements: the stored elements themselves
clone_elements_stored(pl, base) == pl.elements

\* RichTextPayload.clone_elements()
clone_elements(pl, base) == deepcopy_each(pl.elements, base)

RECURSIVE total_size(_)
total_size(elements) ==
    IF elements = <<>> THEN 0 ELSE size(Head(elements)) + total_size(Tail(elements))

\* the identities of the elements and of what they hold
ids_of(elements) ==
    {elements[i].id : i \in DOMAIN elements}
        \cup UNION {{elements[i].kids[k].id : k \in DOMAIN elements[i].kids} : i \in DOMAIN elements}

\* lxml: an element that is put somewhere leaves the place it was in
detach(tr, ids) ==
    LET stays(el) == el.id \notin ids
        kept == SelectSeq(tr, stays)
    IN [i \in DOMAIN kept |-> [kept[i] EXCEPT !.kids = SelectSeq(kept[i].kids, stays)]]

\* the paragraph holding the element, and the element's place in it
holder(tr, id) ==
    CHOOSE i \in DOMAIN tr : \E k \in DOMAIN tr[i].kids : tr[i].kids[k].id = id
place_in(par, id) ==
    CHOOSE k \in DOMAIN par.kids : par.kids[k].id = id

\* a payload value: block-level fragments replace the paragraph enclosing
\* the placeholder, inline fragments replace the placeholder
place(tr, id, clones, block_level) ==
    LET t == detach(tr, ids_of(clones))
        i == holder(t, id)
        k == place_in(t[i], id)
    IN IF block_level
       THEN SubSeq(t, 1, i - 1) \o clones \o SubSeq(t, i + 1, Len(t))
       ELSE [t EXCEPT ![i].kids = SubSeq(t[i].kids, 1, k - 1) \o clones
                                     \o SubSeq(t[i].kids, k + 1, Len(t[i].kids))]

\* a string value: the placeholder becomes a run showing it
place_text(tr, id, text) ==
    LET i == holder(tr, id)
        k == place_in(tr[i], id)
    IN [tr EXCEPT ![i].kids[k] = w_r(id, text)]

\* the placeholders of the tree the mapping has a value for, in document
\* order
RECURSIVE placeholders(_, _)
placeholders(tr, m) ==
    IF tr = <<>> THEN <<>>
    ELSE LET given(el) == el.tag = "MergeField" /\ el.name \in DOMAIN m
             here == SelectSeq(Head(tr).kids, given)
         IN [k \in DOMAIN here |-> [id |-> here[k].id, name |-> here[k].name]]
                \o placeholders(Tail(tr), m)

\* MergeData.replace(part, replacements) with payload values: st is the
\* tree, the identities handed out and what clone_elements returned
RECURSIVE replace_values(_, _, _, _)
replace_values(st, todo, m, pl) ==
    IF todo = <<>> THEN st
    ELSE LET f == Head(todo)
             there == \E i \in DOMAIN st.root :
                          \E k \in DOMAIN st.root[i].kids : st.root[i].kids[k].id = f.id
             clones == clone_elements(pl, st.fresh)
             next == IF ~there THEN st
                     ELSE IF m[f.name].rich
                          THEN [root |-> place(st.root, f.id, clones, pl.block_level),
                                fresh |-> st.fresh + total_size(pl.elements),
                                used |-> Append(st.used, clones)]
                          ELSE [st EXCEPT !.root = place_text(st.root, f.id, m[f.name].text)]
         IN replace_values(next, Tail(todo), m, pl)

\* MailMerge.merge(**replacements)
merge_values(st, m, pl) == replace_values(st, placeholders(st.root, m), m, pl)

PayloadInit ==
    /\ pc = "new"
    /\ part \in PayloadDocs
    /\ root = part
    /\ \E els \in PayloadElements : \E b \in BOOLEAN :
          merge_args = [elements |-> els, block_level |-> b, merges |-> <<>>]
    /\ payload = <<>> /\ fresh = FirstFresh /\ used = <<>>
    /\ elements_of_type_begin = <<>> /\ error = <<>> /\ nested_keys = {}
    /\ Parked

\* payload = RichTextPayload(elements, block_level=...)
RichTextPayload_init ==
    /\ pc = "new"
    /\ IF validate_elements(merge_args.elements)
       THEN /\ payload' = RichTextPayload(merge_args.elements, merge_args.block_level)
            /\ pc' = "payload"
       ELSE /\ pc' = "TypeError"
            /\ UNCHANGED payload
    /\ UNCHANGED <<field_vars, merge_args, fresh, used, engine_vars_but_pc, doc_vars>>

\* document.merge(foo=payload, bar="two", ...)
merge_payload_call ==
    /\ pc = "payload"
    /\ Len(merge_args.merges) < MaxCalls
    /\ \E m \in PayloadCalls :
          LET st == merge_values([root |-> root, fresh |-> fresh, used |-> used], m, payload)
          IN /\ root' = st.root
             /\ fresh' = st.fresh
             /\ used' = st.used
             /\ merge_args' = [merge_args EXCEPT !.merges = Append(@, m)]
    /\ UNCHANGED <<part, elements_of_type_begin, error, nested_keys, payload, pc,
                   engine_vars_but_pc, doc_vars>>

PayloadNext ==
    \/ RichTextPayload_init
    \/ merge_payload_call

SpecPayload == PayloadInit /\ [][PayloadNext]_vars

\* ---------------------------------------------------------------- claims
\* the template body: the package's body without its trailing sectPr
TemplateLen == Len(zip.body) - 1
NoRowSkipped == \A i \in DOMAIN rows : rows[i].skip = "no"
Emits(row) == row.skip # "body"
EmittedUpTo(k) == {i \in 1..k : Emits(rows[i])}
FieldDocs == {d \in DOMAIN rel_docs : rel_docs[d].has_fields}
QueuedParts == concat_new_parts(rel_docs)
OriginalIds == {zip.rels[i].Id : i \in DOMAIN zip.rels}

\* the k-th copy of the template in the rebuilt body, copies being one
\* separator apart
Copy(k) ==
    SubSeq(body, (k - 1) * (TemplateLen + 1) + 1, (k - 1) * (TemplateLen + 1) + TemplateLen)

\* copy is the template with every placeholder showing row's value
CarriesRow(copy, row) ==
    /\ Len(copy) = TemplateLen
    /\ \A j \in 1..TemplateLen :
          /\ copy[j].kind = zip.body[j].kind
          /\ copy[j].field = ""
          /\ copy[j].text = IF zip.body[j].field # "" THEN row[zip.body[j].field]
                            ELSE zip.body[j].text

IsSeparatorNode(e) ==
    IF split_separator(separator)[2] = "break"
    THEN e.kind = "pbr" /\ e.type = split_separator(separator)[1]
    ELSE e.kind = "psect"

\* the body is M copies carrying the rows `emitted`, one separator strictly
\* between consecutive copies, then the trailing section properties
BodyIsCopiesOf(emitted) ==
    LET M == Len(emitted)
    IN /\ Len(body) = M * TemplateLen + (IF M > 0 THEN M - 1 ELSE 0) + 1
       /\ \A k \in 1..M : CarriesRow(Copy(k), emitted[k])
       /\ \A k \in 1..(M - 1) : IsSeparatorNode(body[k * (TemplateLen + 1)])
       /\ body[Len(body)].kind = "sectPr"

\* C1: after merge_templates over N >= 1 rows none of which is skipped, the
\* body is copy 1, separator, copy 2, ..., copy N, trailing section
\* properties: copies in row order, each with its own row's values, and
\* exactly N-1 separators, one between each pair of consecutive copies.
C1_BodyInRowOrder == (pc = "done" /\ NoRowSkipped) => BodyIsCopiesOf(rows)

C1_Witness ==
    /\ pc = "done" /\ NoRowSkipped /\ Len(rows) = 3
    /\ rows[1].name # rows[2].name
    /\ zip = HeaderPackage

\* C2: when some rows raise SkipRecord during the main-body merge, the body
\* holds exactly the copies of the non-skipped rows in row order, one
\* separator between adjacent copies, none before the first or after the last.
C2_SkippedRowsLeaveNoSeparator ==
    (pc = "done" /\ \E i \in DOMAIN rows : rows[i].skip = "body")
        => BodyIsCopiesOf(SelectSeq(rows, Emits))

\* C3: a SkipRecord raised while any part is merged for a row (main body or
\* header/footer copy) is caught at the row boundary and never leaves
\* merge_templates.
C3_SkipNeverEscapes == pc # "escaped"

\* C4: a row aborted by SkipRecord contributes nothing: when its finish has
\* run, no header/footer part is queued for it and no relationship rewrite is
\* pending for it.
C4_AbortedRowLeavesNothing ==
    (pc = "next_row" /\ ~Emits(rows[current_index])) =>
        /\ self_finish_rels = <<>>
        /\ \A d \in FieldDocs :
              Len(rel_docs[d].new_parts) = Cardinality(EmittedUpTo(current_index))

\* C5: every newly created header/footer part has a number, hence a file name
\* and a PartName, distinct from that of every other new part of its type and
\* from that of every header/footer part of the original package.
C5_NewPartNumbersUnique ==
    /\ \A i, j \in DOMAIN QueuedParts :
          i # j => /\ QueuedParts[i].filename # QueuedParts[j].filename
                   /\ QueuedParts[i].PartName # QueuedParts[j].PartName
    /\ \A i \in DOMAIN QueuedParts : \A p \in DOMAIN zip.parts :
          /\ QueuedParts[i].filename # zip.parts[p].name
          /\ QueuedParts[i].PartName # zip.parts[p].name
    /\ pc = "done" => new_parts = QueuedParts

C5_Witness ==
    /\ pc = "done" /\ zip = SectionsPackage /\ Len(rows) > 1
    /\ Len(new_parts) >= 6

\* C6: relationship IDs are unique within the main relationship document in
\* every reachable state, and no ID allocated by replace_relation equals an ID
\* of the original document.
C6_RelationshipIdsUnique ==
    /\ \A i, j \in DOMAIN main_rels : i # j => main_rels[i].Id # main_rels[j].Id
    /\ \A i \in DOMAIN main_rels : i > Len(zip.rels) => main_rels[i].Id \notin OriginalIds

C6_Witness == pc = "done" /\ zip = HeaderPackage /\ Len(main_rels) >= Len(zip.rels) + 3

\* C7: when a header/footer part is duplicated, every relationship its content
\* references is duplicated with a fresh ID and the references inside the
\* duplicated content are rewritten to it: no duplicated part still refers to
\* an ID of the original part's relationship document.
C7_DuplicatedPartRelationshipsRewritten ==
    \A d \in DOMAIN rel_docs : \A n \in DOMAIN rel_docs[d].new_parts :
        \A e \in DOMAIN rel_docs[d].new_parts[n].part :
            \A r \in DOMAIN rel_docs[d].new_parts[n].part[e].refs :
                rel_docs[d].new_parts[n].part[e].refs[r]
                    \notin {zip.parts[d].rels[x].Id : x \in DOMAIN zip.parts[d].rels}

\* the states in which the main relationship document has been scanned
Scanned == pc \notin {"rel_docs", "main", "rejected"}
Targets == {PartFile("header", 9), PartFile("footer", 9)}

\* C8: replace_relation appends exactly one relationship, whose ID is fresh
\* and whose target is new_target, returns that ID, and leaves the old
\* relationship and every other relationship unchanged.
C8_ReplaceRelationFrame ==
    Scanned =>
        \A i \in DOMAIN main_rels : \A t \in Targets :
            LET r == replace_relation(main_rels, id_type_map, main_rels[i], t)
                n == Len(main_rels)
            IN /\ Len(r.rel_part) = n + 1
               /\ SubSeq(r.rel_part, 1, n) = main_rels
               /\ r.rel_part[n + 1].Id = r.id
               /\ r.rel_part[n + 1].Target = t
               /\ \A j \in 1..n : main_rels[j].Id # r.id

C8_Witness == Scanned /\ Len(main_rels) > Len(zip.rels) /\ pc = "prepare"

\* C9: a separator outside the eight values is rejected before the body is
\* cleared, before any separator or section type is written and before any
\* header/footer part or relationship is duplicated; a valid one is never
\* rejected.
C9_InvalidSeparatorRejectedFirst ==
    /\ separator \notin VALID_SEPARATORS => pc \in {"rel_docs", "main", "rejected"}
    /\ pc = "rejected" =>
          /\ separator \notin VALID_SEPARATORS
          /\ body = zip.body
          /\ main_rels = zip.rels
          /\ sep_template = None /\ current_separator = None /\ last_section = None
          /\ rel_docs = <<>> /\ new_parts = <<>>

C9_Witness == pc = "rejected" /\ zip = HeaderPackage

\* MailMerge.merge on the main part: merge_data.replace on its tree
merge(root_body, row) == replace(root_body, row)

SingleRow == pc = "done" /\ Len(rows) = 1 /\ rows[1].skip = "no"

FirstSection ==
    IF first_index(zip.body, "psect") # 0 THEN first_index(zip.body, "psect")
    ELSE first_index(zip.body, "sectPr")

\* the relationship IDs of the main document that lead to a header/footer
\* part holding placeholders
DuplicatedRefs ==
    {zip.rels[i].Id : i \in {x \in DOMAIN zip.rels :
        \E p \in DOMAIN zip.parts :
            /\ zip.parts[p].name = zip.rels[x].Target
            /\ \E e \in DOMAIN zip.parts[p].part : zip.parts[p].part[e].field # ""}}

C10_OnlyIdsDiffer ==
    /\ SingleRow /\ zip = PlainPackage /\ separator = "page_break"
    /\ body # merge(zip.body, rows[1])
    /\ \A j \in DOMAIN body :
          [body[j] EXCEPT !.id = 0] = [merge(zip.body, rows[1])[j] EXCEPT !.id = 0]

\* C20: in every execution of merge_templates each row gets one prepare, one
\* merge and one finish (normal or abort) in input order; the working copy is
\* absent whenever prepare is called and after every finish, so the assertion
\* in prepare never fails; a skipped row keeps no later row from being
\* processed: an execution ends with every row finished.
C20_RowProtocol ==
    /\ pc # "assertion_error"
    /\ pc = "prepare" => ~current_body.some
    /\ pc \in {"next_row", "exit", "extend", "done"} => ~current_body.some
    /\ pc \in {"done", "escaped"} => current_index = Len(rows) + 1

\* the last write returned: the package it wrote is whole (a write that the
\* closed reader ended with ValueError has written the first entries only)
Written == output.some /\ output.val.complete

\* C12: when a step of construction after the reader was opened fails (part
\* classification and parsing, simple or complex field normalisation), the
\* reader is closed before the error leaves __init__: a failed construction
\* leaves no open reader.
C12_FailedConstructionClosesReader == pc = "failed" => ~reader.open

\* construction failed while the second part was being normalised
C12_Witness == pc = "failed" /\ filling = 2 /\ reader.closes = 1

\* C13: close() is idempotent: over any sequence of close calls and
\* context-manager exits ZipFile.close is invoked at most once, no call after
\* the first raises, and the document is marked closed after the first call
\* even when ZipFile.close raised.
C13_CloseIdempotent ==
    /\ reader.closes <= 1
    /\ \A i \in 2..Len(close_log) : ~close_log[i]
    /\ close_log # <<>> => zip_is_closed /\ ~reader.open

\* two calls, the first of which raised
C13_Witness == Len(close_log) = 2 /\ close_log[1] /\ zip_is_closed

\* write left the tree as it was but for the placeholders, each of which shows
\* the empty value
Rendered(pre, post, ev) ==
    /\ Len(post) = Len(pre)
    /\ \A i \in DOMAIN pre :
         post[i] = IF pre[i].field # ""
                   THEN [pre[i] EXCEPT !.text = ev, !.field = ""]
                   ELSE pre[i]

RenderedParts(pre, post, ev) ==
    /\ Len(post) = Len(pre)
    /\ \A i \in DOMAIN pre : Rendered(pre[i].part, post[i].part, ev)

Unresolved(tree) == \E i \in DOMAIN tree : tree[i].field # "" \/ tree[i].kind = "fldSimple"

\* C14: a write with keep_fields "none" and an empty value other than None
\* leaves no placeholder and no raw field in a main, header/footer or notes
\* part nor in a new part: what was given a value shows that value, what was
\* not is rendered as the empty value; the package written holds these trees.
C14_WriteResolvesEveryField ==
    [][(writes' = writes + 1 /\ keep_fields = "none" /\ empty_value'.some) =>
         /\ Rendered(body, body', empty_value'.val)
         /\ RenderedParts(parts, parts', empty_value'.val)
         /\ RenderedParts(notes, notes', empty_value'.val)
         /\ RenderedParts(new_parts, new_parts', empty_value'.val)
         /\ output'.val.complete => output'.val.entries = write_entries(Trees', zip)
         /\ \A i \in DOMAIN output'.val.entries : ~Unresolved(output'.val.entries[i].part)
      ]_vars

\* a written package whose new part shows the empty value for a field the row
\* had no value for, next to a value the row gave
C14_Witness ==
    /\ Written /\ keep_fields = "none" /\ empty_value.some
    /\ \E k \in DOMAIN new_parts : \E i \in DOMAIN new_parts[k].part :
         new_parts[k].part[i].text = empty_value.val
    /\ \E i \in DOMAIN body : body[i].text = "Bo"

\* C15: the settings part write produces says update-fields-on-open is true
\* exactly when the policy is "always", or "auto" with a nested field found at
\* load; otherwise (policy "no" included) the setting is as the package had it.
C15_UpdateFieldsSetting ==
    Written =>
        LET uf == output.val.settings.updateFields
        IN IF auto_update_fields_on_open = "always"
              \/ (auto_update_fields_on_open = "auto" /\ has_nested_fields)
           THEN uf # <<>> /\ \A i \in DOMAIN uf : uf[i].val = "true"
           ELSE uf = zip.settings.updateFields

\* C16: in the package write produces every entry of the package as opened
\* occurs once, every new part occurs once under a name no other entry has,
\* and the content-types manifest holds one descriptor per new part.
C16_PackageEntriesOnce ==
    Written =>
        LET e == output.val.entries
            ct == output.val.content_types
            Count(name) == Cardinality({i \in DOMAIN e : e[i].filename = name})
        IN /\ \A k \in DOMAIN zip.filelist : Count(zip.filelist[k]) = 1
           /\ \A k \in DOMAIN e :
                k > Len(zip.filelist) =>
                    /\ Count(e[k].filename) = 1
                    /\ Cardinality({i \in DOMAIN ct : ct[i].PartName = e[k].filename}) = 1

\* a second write, of a package with new parts of two merge_templates calls
C16_Witness ==
    /\ Written /\ writes = 2 /\ calls = 2
    /\ Len(output.val.entries) >= Len(zip.filelist) + 3

\* the children of the part in document order
RECURSIVE Flat(_)
Flat(tr) == IF tr = <<>> THEN <<>> ELSE Head(tr).kids \o Flat(Tail(tr))

\* The fields of a run sequence read with a stack of open fields: a frame is
\* the begin marker of an open field, the instruction text read for it so far
\* and whether its separate marker was passed.  At the end of the runs the
\* innermost open field, if any, is the one without its end marker.
RECURSIVE OpenFields(_, _, _)
OpenFields(runs, k, stack) ==
    LET n == Len(stack)
        top == stack[n]
        e == runs[k]
        add(frames, text) ==
            IF frames # <<>> /\ ~frames[Len(frames)].show
            THEN [frames EXCEPT ![Len(frames)].instr = @ \o text] ELSE frames
    IN IF k > Len(runs) THEN stack
       ELSE IF e.fldCharType = "begin"
       THEN OpenFields(runs, k + 1,
                       Append(stack, [begin |-> e.id, instr |-> <<>>, show |-> FALSE]))
       ELSE IF e.fldCharType = "separate"
       THEN OpenFields(runs, k + 1,
                       IF n = 0 THEN stack ELSE [stack EXCEPT ![n].show = TRUE])
       ELSE IF e.fldCharType = "end"
       THEN OpenFields(runs, k + 1,
                       IF n = 0 THEN stack
                       ELSE add(SubSeq(stack, 1, n - 1),
                                IF top.instr # <<>> /\ Head(top.instr) = "MERGEFIELD"
                                THEN top.instr ELSE <<>>))
       ELSE OpenFields(runs, k + 1, add(stack, e.instr))

Unterminated == OpenFields(Flat(part), 1, <<>>)

\* C11: when the walk from a begin marker reaches the end of the document
\* without the matching end marker, loading fails with a ValueError that
\* carries the instruction text collected for that field so far, and no
\* placeholder is made for the field: its begin marker is still in the tree.
\* Loading fails this way only for such a field.
C11_BeginWithoutEnd ==
    /\ pc = "ValueError" =>
          /\ Unterminated # <<>>
          /\ LET field == Unterminated[Len(Unterminated)]
             IN /\ error = field.instr
                /\ \E i \in DOMAIN Flat(root) :
                     Flat(root)[i].id = field.begin /\ Flat(root)[i].tag = "r"
    /\ pc = "normalised" => Unterminated = <<>>

\* an outer field without its end marker, after the field nested in it got
\* its placeholder: the error carries the text of both
C11_Witness ==
    /\ pc = "ValueError" /\ Len(error) = 2
    /\ \E i \in DOMAIN Flat(root) : Flat(root)[i].tag = "MergeField"

\* the tables of a tree, at every depth
RECURSIVE CountTables(_)
CountTables(items) ==
    IF items = <<>> THEN 0
    ELSE LET x == Head(items)
             inner == IF x.kind = "tbl" THEN 1 + CountTables(x.rows)
                      ELSE IF x.kind = "tr" THEN CountTables(x.cells)
                      ELSE 0
         IN inner + CountTables(Tail(items))

\* the rows of a tree, at every depth, a row before the rows nested in it
RECURSIVE RowsOf(_)
RowsOf(items) ==
    IF items = <<>> THEN <<>>
    ELSE LET x == Head(items)
             inner == IF x.kind = "tbl" THEN RowsOf(x.rows)
                      ELSE IF x.kind = "tr" THEN <<x>> \o RowsOf(x.cells)
                      ELSE <<>>
         IN inner \o RowsOf(Tail(items))

EnclosesAnchor(tr) ==
    \E c \in DOMAIN tr.cells :
        tr.cells[c].kind = "p" /\ tr.cells[c].field = merge_args.anchor

\* the row with every placeholder its mapping has a value for showing that
\* value, in the nested tables too
RECURSIVE ResolvedAgainst(_, _)
ResolvedAgainst(x, m) ==
    IF x.kind = "tr" THEN Tr([c \in DOMAIN x.cells |-> ResolvedAgainst(x.cells[c], m)])
    ELSE IF x.kind = "tbl" THEN Tbl([r \in DOMAIN x.rows |-> ResolvedAgainst(x.rows[r], m)])
    ELSE IF x.field \in DOMAIN m /\ x.field # ""
         THEN [x EXCEPT !.text = m[x.field], !.field = ""]
         ELSE x

\* what the list makes of a tree: in the table of the anchor row, the rows
\* before it, one resolved row per mapping in list order, the rows after it
RECURSIVE Repeated(_)
Repeated(x) ==
    IF x.kind = "tbl"
    THEN LET at == {r \in DOMAIN x.rows : EnclosesAnchor(x.rows[r])}
         IN IF at = {}
            THEN Tbl([r \in DOMAIN x.rows |->
                        Tr([c \in DOMAIN x.rows[r].cells |-> Repeated(x.rows[r].cells[c])])])
            ELSE LET a == CHOOSE r \in at : \A q \in at : r <= q
                     k == Len(merge_args.rows)
                 IN Tbl([r \in 1..(Len(x.rows) + k - 1) |->
                           IF r < a THEN x.rows[r]
                           ELSE IF r < a + k
                                THEN ResolvedAgainst(x.rows[a], merge_args.rows[r - a + 1])
                                ELSE x.rows[r - k + 1]])
    ELSE x

RowsMerged == pc \in {"merged", "merged_rows"}

AnchorRowRepeated ==
    \A p \in DOMAIN part : root[p] = [i \in DOMAIN part[p] |-> Repeated(part[p][i])]

\* the tables inside the anchor rows of the template
TablesInAnchorRows ==
    LET trs == RowsOf(part[1] \o (IF Len(part) > 1 THEN part[2] ELSE <<>>))
        S == {i \in DOMAIN trs : EnclosesAnchor(trs[i])}
        a == CHOOSE i \in S : TRUE
    IN CountTables(trs[a].cells)

AllTables(trees) == CountTables(trees[1] \o (IF Len(trees) > 1 THEN trees[2] ELSE <<>>))

RECURSIVE Content(_)
Content(el) ==
    [tag |-> el.tag, text |-> el.text, name |-> el.name,
     kids |-> [k \in DOMAIN el.kids |-> Content(el.kids[k])]]
Contents(elements) == [i \in DOMAIN elements |-> Content(elements[i])]

RECURSIVE Cat(_)
Cat(seqs) == IF seqs = <<>> THEN <<>> ELSE Head(seqs) \o Cat(Tail(seqs))

\* the first merge call has returned
FirstMerge == pc = "payload" /\ Len(merge_args.merges) = 1

\* the placeholder is given the payload by the first merge call
GivenPayload(el) ==
    /\ el.tag = "MergeField"
    /\ el.name \in DOMAIN merge_args.merges[1]
    /\ merge_args.merges[1][el.name].rich
EnclosesPayload(par) == \E k \in DOMAIN par.kids : GivenPayload(par.kids[k])

\* what the first merge call makes of an element given a string, or nothing
Shown(el) ==
    IF el.tag = "MergeField" /\ el.name \in DOMAIN merge_args.merges[1]
          /\ ~merge_args.merges[1][el.name].rich
    THEN [tag |-> "r", text |-> merge_args.merges[1][el.name].text, name |-> "", kids |-> <<>>]
    ELSE Content(el)
ShownParagraph(par) ==
    [tag |-> "p", text |-> "", name |-> "", kids |-> [k \in DOMAIN par.kids |-> Shown(par.kids[k])]]

\* the fragments in the place of each paragraph enclosing the placeholder
BlockPlaced ==
    Contents(root) =
        Cat([i \in DOMAIN part |->
                IF EnclosesPayload(part[i]) THEN Contents(merge_args.elements)
                ELSE <<ShownParagraph(part[i])>>])

\* the fragments in the place of the placeholder, every paragraph staying
InlinePlaced ==
    /\ Len(root) = Len(part)
    /\ \A i \in DOMAIN part :
          /\ root[i].id = part[i].id
          /\ root[i].tag = "p"
          /\ Contents(root[i].kids) =
                Cat([k \in DOMAIN part[i].kids |->
                        IF GivenPayload(part[i].kids[k]) THEN Contents(merge_args.elements)
                        ELSE <<Shown(part[i].kids[k])>>])

\* C18: a payload given as a field value is placed by its block_level flag:
\* the fragments of a block-level payload replace the paragraph enclosing
\* the placeholder, in fragment order and at that paragraph's position; the
\* fragments of an inline payload replace the placeholder only, the
\* enclosing paragraph and the fields of the other paragraphs staying.
C18_PayloadPlacedByLevel ==
    FirstMerge => IF merge_args.block_level THEN BlockPlaced ELSE InlinePlaced

C18_Witness ==
    /\ FirstMerge
    /\ ~merge_args.block_level
    /\ Len(merge_args.elements) = 2
    /\ Len(part[1].kids) = 3
    /\ Len(root[1].kids) = 4
    /\ root[1].kids[2].text = "Inline " /\ root[1].kids[3].text = "value"
    /\ root[2].kids[1].text = "two"

\* the element is in the tree, as clone_elements returned it
InTree(el) ==
    \/ \E i \in DOMAIN root : root[i] = el
    \/ \E i \in DOMAIN root : \E k \in DOMAIN root[i].kids : root[i].kids[k] = el

\* C19: a payload can be reused: every clone_elements call returns new
\* objects showing the stored fragments in their order, no merge changes the
\* stored fragments or their number, and every use keeps the content it was
\* given.
C19_PayloadReusable ==
    pc = "payload" =>
        /\ payload.elements = merge_args.elements
        /\ \A u \in DOMAIN used :
              /\ Contents(used[u]) = Contents(payload.elements)
              /\ ids_of(used[u]) \cap (ids_of(payload.elements) \cup ids_of(part)) = {}
              /\ \A v \in DOMAIN used : v # u => ids_of(used[u]) \cap ids_of(used[v]) = {}
              /\ \A k \in DOMAIN used[u] : InTree(used[u][k])

C19_Witness ==
    /\ pc = "payload"
    /\ Len(merge_args.merges) = 2
    /\ Len(used) = 3
    /\ Len(payload.elements) = 2

\* a valid separator of the section class
SectionClass ==
    separator \in VALID_SEPARATORS /\ split_separator(separator)[2] = "section"

\* the references of the trailing section properties of the template
TrailingRefs == zip.body[Len(zip.body)].refs

\* the target of a relationship of the original main relationship document
OriginalTarget(id) == zip.rels[CHOOSE i \in DOMAIN zip.rels : zip.rels[i].Id = id].Target

\* refs are the template's trailing references as row k must show them: a
\* reference to a header/footer part holding placeholders leads, through a
\* relationship created by the call, to the copy of that part made for row k;
\* any other reference is as in the template
LeadToCopiesOfRow(refs, k) ==
    /\ Len(refs) = Len(TrailingRefs)
    /\ \A r \in DOMAIN TrailingRefs :
          IF TrailingRefs[r] \in DuplicatedRefs
          THEN \E i \in DOMAIN main_rels : \E d \in FieldDocs :
                  /\ i > Len(zip.rels)
                  /\ main_rels[i].Id = refs[r]
                  /\ rel_docs[d].target = OriginalTarget(TrailingRefs[r])
                  /\ Len(rel_docs[d].new_parts) >= k
                  /\ main_rels[i].Target = rel_docs[d].new_parts[k].filename
          ELSE refs[r] = TrailingRefs[r]

\* C21: with a section-class separator and no skipped row the rewrites are
\* deferred by one step: the separator after copy k is in the body only with
\* its header/footer references leading to the parts duplicated for row k,
\* and the trailing section properties lead to the parts duplicated for the
\* last row; no separator refers to the parts of another row.
C21_RewritesDeferredByOneStep ==
    (NoRowSkipped /\ SectionClass /\ pc \notin {"rel_docs", "main", "rejected"}) =>
        /\ \A k \in 1..(Len(rows) - 1) :
              k * (TemplateLen + 1) <= Len(body) =>
                  /\ body[k * (TemplateLen + 1)].kind = "psect"
                  /\ LeadToCopiesOfRow(body[k * (TemplateLen + 1)].refs, k)
        /\ pc \in {"extend", "done"} =>
              /\ body[Len(body)].kind = "sectPr"
              /\ LeadToCopiesOfRow(body[Len(body)].refs, Len(rows))

C21_Witness ==
    /\ pc = "done" /\ NoRowSkipped /\ separator = "nextPage_section"
    /\ zip = SectionsPackage /\ Len(rows) = 3
    /\ body[TemplateLen + 1].refs # body[2 * (TemplateLen + 1)].refs
    /\ body[Len(body)].refs # TrailingRefs

\* C22: when merge_templates has completed without error, whatever the rows
\* and whichever of them were skipped, the last child of the main body is the
\* trailing section properties saved at session open, and the body holds no
\* other body-level section properties.
C22_TrailingSectionLastAndOnce ==
    pc = "done" =>
        /\ body[Len(body)] = last_section.val
        /\ body[Len(body)].kind = "sectPr"
        /\ Len(body[Len(body)].refs) = Len(TrailingRefs)
        /\ Cardinality({i \in DOMAIN body : body[i].kind = "sectPr"}) = 1

C22_Witness ==
    /\ pc = "done" /\ zip = SectionsPackage /\ Len(rows) = 3
    /\ rows[1].skip = "body" /\ rows[3].skip = "body" /\ rows[2].skip = "no"
    /\ body[Len(body)].kind = "sectPr"

\* the session is open: _prepare_data has built the snapshot and the
\* separator template
SessionOpen == pc \notin {"rel_docs", "main", "rejected"}

\* the working copy of the k-th row and the registry after its prepare, from
\* the snapshot and k alone: the snapshot with its internal IDs renumbered,
\* one renumbering per prepare since the session began
RECURSIVE WorkingCopy(_)
WorkingCopy(k) ==
    IF k = 0 THEN [tree |-> body_copy, map |-> [t \in IdTypes |-> 0]]
    ELSE fix_ids(body_copy, WorkingCopy(k - 1).map, 1)

\* the internal IDs a tree carries
IdsIn(tree) == {tree[j].id : j \in DOMAIN tree} \ {0}

\* C23: throughout a duplication session no step (prepare, merge, finish, the
\* relationship flushes) changes the body snapshot or the separator template;
\* every prepare hands out a copy of the snapshot, the same for the k-th row
\* whatever the earlier rows held and whichever of them were skipped (its
\* internal IDs renumbered, to IDs no earlier copy carries), and the template
\* as it was built; what a finish appends for a row is that copy with the
\* row's own values.
C23_SnapshotNeverModified ==
    [][SessionOpen =>
         /\ body_copy' = body_copy
         /\ sep_template' = sep_template
         /\ Len(body_copy) = TemplateLen
         /\ \A j \in 1..TemplateLen :
               /\ body_copy[j].kind = zip.body[j].kind
               /\ body_copy[j].field = zip.body[j].field
               /\ body_copy[j].text = zip.body[j].text
               /\ body_copy[j].id = zip.body[j].id
         /\ (pc = "prepare" /\ pc' = "header_footer") =>
               /\ current_body' = Some(WorkingCopy(current_index).tree)
               /\ \A j \in 1..TemplateLen :
                     [current_body'.val[j] EXCEPT !.id = 0] = [body_copy[j] EXCEPT !.id = 0]
               /\ IdsIn(current_body'.val) \cap IdsIn(body') = {}
               /\ current_separator' = sep_template
         /\ pc = "finish" =>
               /\ Len(body') = Len(body) + TemplateLen
               /\ SubSeq(body', 1, Len(body)) = body
               /\ SubSeq(body', Len(body) + 1, Len(body'))
                     = replace(WorkingCopy(current_index).tree, rows[current_index])
               /\ CarriesRow(SubSeq(body', Len(body) + 1, Len(body')), rows[current_index])
      ]_vars

C23_Witness ==
    /\ pc = "next_row" /\ current_index = 3 /\ zip = HeaderPackage
    /\ rows[1].skip = "body" /\ rows[2].skip = "no" /\ rows[3].skip = "no"
    /\ rows[2].name # rows[3].name
    /\ body[Len(body) - 1].text = rows[3].name
    /\ body[Len(body)].id = WorkingCopy(3).tree[TemplateLen].id
    /\ body[Len(body)].id \notin {0, zip.body[TemplateLen].id}

\* the rows a header/footer document has finished, or may have: all but the
\* current one before its pass, all up to the current one after it; when a
\* SkipRecord left the pass, the documents before the raising one have
\* finished the current row and the others have not
HeaderFooterRows ==
    CASE pc \in {"rel_docs", "main", "rejected"} -> {0}
      [] pc \in {"prepare", "header_footer"} -> {current_index - 1}
      [] pc \in {"merge", "finish", "abort", "next_row"} -> {current_index}
      [] pc = "escaped" -> {current_index - 1, current_index}
      [] OTHER -> {Len(rows)}

\* the part with every placeholder showing the row's value
PartCarriesRow(copy, original, row) ==
    /\ Len(copy) = Len(original)
    /\ \A j \in DOMAIN original :
          copy[j] = IF original[j].field # ""
                    THEN [original[j] EXCEPT !.text = row[original[j].field], !.field = ""]
                    ELSE original[j]

HoldsPlaceholder(tree) == \E i \in DOMAIN tree : tree[i].field # ""

\* C24: in merge_templates a header/footer part holding a placeholder yields
\* one new part per row it is taken through, the first row included, each the
\* part merged with that row under a path of its own, and the original part
\* is not modified; a header/footer part without a placeholder yields no new
\* part and no relationship rewrite.
C24_OneNewPartPerRow ==
    /\ parts = zip.parts
    /\ \A d \in DOMAIN rel_docs :
          LET np == rel_docs[d].new_parts
          IN /\ rel_docs[d].part = zip.parts[d].part
             /\ IF HoldsPlaceholder(zip.parts[d].part)
                THEN /\ Len(np) \in HeaderFooterRows
                     /\ \A j \in DOMAIN np :
                           /\ PartCarriesRow(np[j].part, zip.parts[d].part, rows[j])
                           /\ np[j].filename # zip.parts[d].name
                           /\ np[j].filename.type = zip.parts[d].name.type
                           /\ \A i \in DOMAIN np : i # j => np[i].filename # np[j].filename
                ELSE /\ np = <<>>
                     /\ \A i \in DOMAIN finish_rels : finish_rels[i][1] # rel_docs[d].target
                     /\ \A i \in DOMAIN self_finish_rels :
                           self_finish_rels[i][1] # rel_docs[d].target
    /\ \A i \in DOMAIN main_rels :
          i > Len(zip.rels) =>
              \E d \in DOMAIN rel_docs : \E j \in DOMAIN rel_docs[d].new_parts :
                  /\ HoldsPlaceholder(zip.parts[d].part)
                  /\ main_rels[i].Target = rel_docs[d].new_parts[j].filename

C24_Witness ==
    /\ pc = "done" /\ zip = HeaderPackage /\ Len(rows) = 3
    /\ rows[2].skip = "body"
    /\ Len(rel_docs[1].new_parts) = 3 /\ rel_docs[2].new_parts = <<>>
    /\ Len(new_parts) = 3

RequestedType == split_separator(separator)[1]
TrailingType == zip.body[Len(zip.body)].type
InnerSection == first_index(zip.body, "psect")

\* the trailing section properties saved at session open, the separator
\* template, the separators between the copies of an unskipped row list and
\* the section properties that close the body all have the type t
TrailingAndSeparatorsTyped(t) ==
    /\ last_section.val.type = t
    /\ sep_template.val.type = t
    /\ current_separator.some => current_separator.val.type = t
    /\ NoRowSkipped =>
          \A k \in 1..(Len(rows) - 1) :
              k * (TemplateLen + 1) <= Len(body) =>
                  /\ body[k * (TemplateLen + 1)].kind = "psect"
                  /\ body[k * (TemplateLen + 1)].type = t
    /\ pc = "done" => body[Len(body)].kind = "sectPr" /\ body[Len(body)].type = t

\* C28 as stated: with a section-class separator the trailing section
\* properties and the separators built from them never carry the requested
\* type: they keep the type the template gave them.
C28_TrailingNeverTyped ==
    (SectionClass /\ SessionOpen) => TrailingAndSeparatorsTyped(TrailingType)

\* C28 amended: with a section-class separator, session open sets the
\* requested break type on the first section properties of the document
\* only. When a paragraph-level section precedes the trailing one, that
\* section carries the type in the snapshot and the trailing section
\* properties and the separators keep their own type; when the trailing
\* section properties are the only ones, they are the first, so they and
\* every separator built from them carry the requested type.
C28_TypeOnFirstSectionOnly ==
    (SectionClass /\ SessionOpen) =>
        IF InnerSection # 0
        THEN /\ body_copy[InnerSection].type = RequestedType
             /\ \A j \in DOMAIN body_copy :
                   j # InnerSection => body_copy[j].type = zip.body[j].type
             /\ TrailingAndSeparatorsTyped(TrailingType)
        ELSE TrailingAndSeparatorsTyped(RequestedType)

C28_Witness ==
    /\ pc = "done" /\ NoRowSkipped /\ Len(rows) = 2
    /\ separator = "nextPage_section" /\ zip = HeaderPackage
    /\ body[TemplateLen + 1].type = "nextPage"
    /\ body[Len(body)].type = "nextPage"
    /\ TrailingType = "oddPage"

\* the field names of the document as opened
DocumentFields ==
    get_merge_fields([body |-> zip.body, parts |-> zip.parts, notes |-> zip.notes])

\* the one call made so far was merge_templates, it completed, no row was
\* skipped and every row supplied every field of the document
EveryRowSuppliedEveryField ==
    /\ calls = 1 /\ pc = "done"
    /\ \A i \in DOMAIN rows :
          /\ rows[i].skip = "no"
          /\ \A f \in DocumentFields : f \in DOMAIN rows[i]

\* C27: write removes the mail-merge settings element exactly when no field
\* was left unmerged; in particular the first write after a merge_templates
\* in which every row supplies every field leaves no such element, and the
\* element is kept when a field of the document was given no value.
C27_MailMergeRemovedWhenAllMerged ==
    (Written /\ writes = 1) =>
        /\ (/\ EveryRowSuppliedEveryField
            /\ Len(output.val.entries) > Len(zip.filelist))
              => ~output.val.settings.mailMerge
        /\ (calls = 0 /\ zip.settings.mailMerge /\ DocumentFields # {})
              => output.val.settings.mailMerge

\* C25: complex-field discovery over a finite part terminates: every turn
\* of the loop takes at least one begin marker off the work-list, no marker
\* ever comes back, and the loop is left either with the work-list empty
\* (every begin marker found by the scan was popped, at top level or by a
\* nested recursion) or with the malformed-input error.
C25_DiscoveryEnds ==
    [][/\ (pc = "pull" /\ pc' = "pull") =>
              /\ Len(elements_of_type_begin') < Len(elements_of_type_begin)
              /\ \E k \in 1..Len(elements_of_type_begin) :
                    elements_of_type_begin' =
                        SubSeq(elements_of_type_begin, k + 1, Len(elements_of_type_begin))
       /\ (pc = "pull" /\ pc' # "pull") =>
              \/ pc' = "normalised" /\ elements_of_type_begin' = <<>>
              \/ pc' = "ValueError"
      ]_vars

\* C29: whenever the walk of a complex field meets a run holding a begin
\* marker, that run is the head of the work-list, whatever the shape of the
\* document: the assertion before the nested recursion never fails, neither
\* because the head is another marker (AssertionError) nor because the
\* work-list has no head (IndexError).
C29_BeginMetIsHead == pc \notin {"AssertionError", "IndexError"}

\* C30: a complex field whose end marker comes later in document order than
\* its begin marker is never rejected as "begin without end": loading fails
\* that way only when the document has a field without its end marker.
C30_EndLaterNeverRejected == pc = "ValueError" => Unterminated # <<>>

\* The fields lying inside another field, read from the children of the part
\* in document order with a stack of open fields: a field with a placeholder
\* of its own that is closed while another field is open, and a simple-field
\* placeholder met while a field is open.  A walk enters a following
\* paragraph at its first run (line 388), so the placeholders before that run
\* are not met: entering is set at the start of a later paragraph, and again
\* when a field begun in an earlier paragraph gives way to its placeholder
\* there, and it is cleared by the next run.
RECURSIVE NestedReading(_, _, _, _, _, _)
NestedReading(runs, first, k, stack, entering, acc) ==
    LET n == Len(stack)
        top == stack[n]
        e == runs[k]
        later == k > first
        recognised == top.instr # <<>> /\ Head(top.instr) = "MERGEFIELD"
        add(frames, text) ==
            IF frames # <<>> /\ ~frames[Len(frames)].show
            THEN [frames EXCEPT ![Len(frames)].instr = @ \o text] ELSE frames
    IN IF k > Len(runs) THEN acc
       ELSE IF e.fldCharType = "begin"
       THEN NestedReading(runs, first, k + 1,
                          Append(stack, [begin |-> k, instr |-> <<>>, show |-> FALSE]),
                          FALSE, acc)
       ELSE IF e.fldCharType = "separate"
       THEN NestedReading(runs, first, k + 1,
                          IF n = 0 THEN stack ELSE [stack EXCEPT ![n].show = TRUE],
                          FALSE, acc)
       ELSE IF e.fldCharType = "end"
       THEN IF n = 0 THEN NestedReading(runs, first, k + 1, stack, FALSE, acc)
            ELSE NestedReading(runs, first, k + 1,
                               add(SubSeq(stack, 1, n - 1),
                                   IF recognised THEN top.instr ELSE <<>>),
                               later /\ recognised /\ top.begin <= first,
                               IF n >= 2 /\ recognised
                               THEN acc \cup {runs[top.begin].id} ELSE acc)
       ELSE IF e.tag = "MergeField"
       THEN IF entering \/ (later /\ k = first + 1)
            THEN NestedReading(runs, first, k + 1, stack, TRUE, acc)
            ELSE NestedReading(runs, first, k + 1, add(stack, e.instr), FALSE,
                               IF n >= 1 THEN acc \cup {e.id} ELSE acc)
       ELSE NestedReading(runs, first, k + 1, add(stack, e.instr), FALSE, acc)

FieldsInsideFields ==
    NestedReading(Flat(part), Len(part[1].kids), 1, <<>>, FALSE, {})

\* C26: every field found inside another complex field during discovery, a
\* complex field consumed by the nested recursion or a simple-field
\* placeholder met during the walk, is flagged as nested and no other field
\* is; the has-nested-fields indicator is true exactly when a field was
\* flagged.
C26_NestedFieldsFlagged ==
    /\ nested_keys \subseteq FieldsInsideFields
    /\ pc = "normalised" => nested_keys = FieldsInsideFields
    /\ has_nested_fields <=> nested_keys # {}

\* a merge field whose display content holds a simple-field placeholder
C26_Witness ==
    /\ pc = "normalised" /\ has_nested_fields
    /\ Len(part) = 1 /\ Len(part[1].kids) = 5
    /\ part[1].kids[2].instr = <<"MERGEFIELD">>
    /\ part[1].kids[3].fldCharType = "separate"
    /\ part[1].kids[4].tag = "MergeField"
    /\ part[1].kids[5].fldCharType = "end"
    /\ nested_keys = {4}

\* every relationship ID a section-properties node of the main body refers to
\* is an entry of the main part's relationship document
BodyReferencesResolve ==
    \A i \in DOMAIN body :
        body[i].kind \in {"psect", "sectPr"} =>
            \A r \in DOMAIN body[i].refs :
                \E j \in DOMAIN main_rels : main_rels[j].Id = body[i].refs[r]

\* C31: after any sequence of completed merge_templates calls on one
\* document, every relationship ID referenced from a separator or from the
\* trailing section properties of the main body is present in the main part's
\* relationship document as write serialises it: what an earlier call created
\* is still there after a later call loaded the document again.
C31_ReferencesSurviveReload == (pc = "done" /\ ~zip_is_closed) => BodyReferencesResolve

\* C32: after any number of write calls under any auto-update policy the
\* settings part holds at most one update-fields element: one already there,
\* from the template or from an earlier write, is reused.
C32_AtMostOneUpdateFields ==
    /\ Len(settings.updateFields) <= 1
    /\ Written => Len(output.val.settings.updateFields) <= 1
====
